---------------------------- MODULE Spec2Model ----------------------------
(***************************************************************************)
(* A model of Digitree's BTree (src/src/b-tree.ts): the node store, the    *)
(* Path cursor, find / insert / delete with split and rebalance, cursor    *)
(* movement, iteration and range scans.                                    *)
(*                                                                         *)
(* Nodes are JavaScript objects shared by reference between the tree and   *)
(* every Path.  The model keeps them in a store (heap), a sequence of node *)
(* records addressed by position; a Path holds node addresses, exactly as  *)
(* the source's Path holds node references.  Object identity is not        *)
(* observable in the program beyond equality, so after every operation     *)
(* the store is renumbered (canon) to hold exactly the nodes reachable     *)
(* from the root and from the Paths the caller still holds.                *)
(*                                                                         *)
(* Entries are records [id, value]; the key extractor is e => e.id (the    *)
(* dictionary use of the README), the comparator is the constructor's      *)
(* default.                                                                *)
(***************************************************************************)
EXTENDS Integers, Sequences, FiniteSets, TLC

(* src/src/b-tree.ts:5 fixes NodeCapacity = 64.  The algorithms only use   *)
(* NodeCapacity, NodeCapacity >>> 1 and NodeCapacity << 1; the model runs  *)
(* them with the capacity scaled down to 4, the smallest value for which a *)
(* non-root leaf that lost an entry is still non-empty (as it is for 64),  *)
(* so that splits, borrows and merges at several levels happen with a few  *)
(* dozen keys.                                                             *)
NodeCapacity == 4

\* NodeCapacity >>> 1
HalfCapacity == NodeCapacity \div 2

\* NodeCapacity << 1
DoubleCapacity == NodeCapacity * 2

-----------------------------------------------------------------------------
(* Sequence helpers: the Array methods the source uses.                    *)

\* arr.splice(i, 1) with a zero-based i: the array without slot i; nothing
\* is removed when i is past the end, a negative i counts from the end
RemoveAt(s, i) ==
    LET k == IF i >= 0 THEN i ELSE IF Len(s) + i > 0 THEN Len(s) + i ELSE 0
    IN  IF k >= Len(s) THEN s
        ELSE [j \in 1..(Len(s) - 1) |-> IF j <= k THEN s[j] ELSE s[j + 1]]

\* arr.splice(i, 0, x) with a zero-based i: x inserted before slot i
InsertAt(s, i, x) ==
    [j \in 1..(Len(s) + 1) |-> IF j <= i THEN s[j] ELSE IF j = i + 1 THEN x ELSE s[j - 1]]

\* keys[i] = x with a zero-based i; an assignment past the end grows the
\* array, the slots in between read as undefined
SetAt(s, i, x) ==
    [j \in 1..(IF i + 1 > Len(s) THEN i + 1 ELSE Len(s)) |->
        IF j = i + 1 THEN x ELSE IF j <= Len(s) THEN s[j] ELSE 0]

\* the first n slots / the slots from zero-based n on
Take(s, n) == SubSeq(s, 1, n)
Drop(s, n) == SubSeq(s, n + 1, Len(s))

\* the value JavaScript yields for a missing array slot, as an entry
undefined == [id |-> 0, value |-> 0]

\* entries[i] with a zero-based i; undefined outside the array
EntryAt(entries, i) == IF i >= 0 /\ i < Len(entries) THEN entries[i + 1] ELSE undefined

\* nodes[i] with a zero-based i; 0 (no node) outside the array
NodeAt(nodes, i) == IF i >= 0 /\ i < Len(nodes) THEN nodes[i + 1] ELSE 0

\* partitions[i] with a zero-based i; the undefined key outside the array
KeyAt(keys, i) == IF i >= 0 /\ i < Len(keys) THEN keys[i + 1] ELSE undefined.id

-----------------------------------------------------------------------------
(* Nodes, Paths.                                                           *)

LeafNode(entries) == [leaf |-> TRUE, entries |-> entries, partitions |-> <<>>, nodes |-> <<>>]

BranchNode(partitions, nodes) ==
    [leaf |-> FALSE, entries |-> <<>>, partitions |-> partitions, nodes |-> nodes]

PathBranch(node, index) == [node |-> node, index |-> index]

Path(branches, leafNode, leafIndex, on, ver) ==
    [branches |-> branches, leafNode |-> leafNode, leafIndex |-> leafIndex,
     on |-> on, version |-> ver]

\* the constructor's default key extractor applied to dictionary entries
keyFromEntry(entry) == entry.id

\* the constructor's default comparator; < and > are both false when a side
\* is undefined, so the result is 0 there
compare(a, b) ==
    IF a = undefined.id \/ b = undefined.id THEN 0
    ELSE IF a < b THEN -1 ELSE IF a > b THEN 1 ELSE 0

\* compareKeys: the consistency check (compare(b, a) equal to a non-zero
\* compare(a, b)) cannot fire for the default comparator
compareKeys(a, b) == compare(a, b)

isValid(t, path) == path.version = t.version

-----------------------------------------------------------------------------
(* Search.                                                                 *)

RECURSIVE EntrySearch(_, _, _, _)
EntrySearch(entries, key, lo, hi) ==
    IF lo > hi THEN [on |-> FALSE, index |-> lo]
    ELSE LET split == (lo + hi) \div 2
             result == compareKeys(key, keyFromEntry(entries[split + 1]))
         IN  IF result = 0 THEN [on |-> TRUE, index |-> split]
             ELSE IF result < 0 THEN EntrySearch(entries, key, lo, split - 1)
             ELSE EntrySearch(entries, key, split + 1, hi)

indexOfEntry(entries, key) == EntrySearch(entries, key, 0, Len(entries) - 1)

RECURSIVE KeySearch(_, _, _, _)
KeySearch(keys, key, lo, hi) ==
    IF lo > hi THEN lo
    ELSE LET split == (lo + hi) \div 2
             result == compareKeys(key, keys[split + 1])
         IN  IF result = 0 THEN split + 1
             ELSE IF result < 0 THEN KeySearch(keys, key, lo, split - 1)
             ELSE KeySearch(keys, key, split + 1, hi)

indexOfKey(keys, key) == KeySearch(keys, key, 0, Len(keys) - 1)

RECURSIVE getPath(_, _, _)
getPath(t, node, key) ==
    IF t.heap[node].leaf
    THEN LET r == indexOfEntry(t.heap[node].entries, key)
         IN  Path(<<>>, node, r.index, r.on, t.version)
    ELSE LET index == indexOfKey(t.heap[node].partitions, key)
             path == getPath(t, t.heap[node].nodes[index + 1], key)
         IN  [path EXCEPT !.branches = <<PathBranch(node, index)>> \o @]

RECURSIVE getFirst(_, _)
getFirst(t, node) ==
    IF t.heap[node].leaf
    THEN Path(<<>>, node, 0, Len(t.heap[node].entries) > 0, t.version)
    ELSE LET path == getFirst(t, t.heap[node].nodes[1])
         IN  [path EXCEPT !.branches = <<PathBranch(node, 0)>> \o @]

RECURSIVE getLast(_, _)
getLast(t, node) ==
    IF t.heap[node].leaf
    THEN LET count == Len(t.heap[node].entries)
         IN  Path(<<>>, node, IF count > 0 THEN count - 1 ELSE 0, count > 0, t.version)
    ELSE LET index == Len(t.heap[node].nodes) - 1
             path == getLast(t, t.heap[node].nodes[index + 1])
         IN  [path EXCEPT !.branches = <<PathBranch(node, index)>> \o @]

first(t) == getFirst(t, t.root)

last(t) == getLast(t, t.root)

find(t, key) == getPath(t, t.root, key)

-----------------------------------------------------------------------------
(* Cursor movement.                                                        *)

\* what a throwing call yields: validatePath's error
StalePath == [thrown |-> "Path is invalid due to mutation of the tree"]

\* the TypeError a read of a property of undefined throws
TypeError == [thrown |-> "TypeError"]

RECURSIVE moveToFirst(_, _, _)
moveToFirst(t, node, path) ==
    IF t.heap[node].leaf
    THEN [path EXCEPT !.leafNode = node, !.leafIndex = 0,
                      !.on = Len(t.heap[node].entries) > 0]
    ELSE moveToFirst(t, t.heap[node].nodes[1],
                     [path EXCEPT !.branches = Append(@, PathBranch(node, 0))])

RECURSIVE moveToLast(_, _, _)
moveToLast(t, node, path) ==
    IF t.heap[node].leaf
    THEN LET count == Len(t.heap[node].entries)
         IN  [path EXCEPT !.leafNode = node, !.on = count > 0,
                          !.leafIndex = IF count > 0 THEN count - 1 ELSE 0]
    ELSE LET index == Len(t.heap[node].partitions)
         IN  moveToLast(t, t.heap[node].nodes[index + 1],
                        [path EXCEPT !.branches = Append(@, PathBranch(node, index))])

\* internalNext's loop: the number of trailing frames that sit on the last
\* child of their branch
\* moveToFirst / moveToLast on the child a frame's index names: undefined
\* when the index is outside the branch's nodes, and then the read of the
\* child's nodes throws
moveToFirstChild(t, branch, path) ==
    IF NodeAt(t.heap[branch.node].nodes, branch.index + 1) = 0 THEN TypeError
    ELSE moveToFirst(t, NodeAt(t.heap[branch.node].nodes, branch.index + 1), path)

moveToLastChild(t, branch, path) ==
    IF NodeAt(t.heap[branch.node].nodes, branch.index - 1) = 0 THEN TypeError
    ELSE moveToLast(t, NodeAt(t.heap[branch.node].nodes, branch.index - 1), path)

RECURSIVE NextPopCount(_, _, _)
NextPopCount(t, branches, popCount) ==
    LET lastFrame == Len(branches) - 1
    IN  IF popCount <= lastFrame
           /\ branches[lastFrame - popCount + 1].index
                = Len(t.heap[branches[lastFrame - popCount + 1].node].partitions)
        THEN NextPopCount(t, branches, popCount + 1)
        ELSE popCount

internalNext(t, path) ==
    LET entries == t.heap[path.leafNode].entries
    IN  IF ~path.on
        THEN [path EXCEPT !.on =
                 /\ \A i \in 1..Len(path.branches) :
                        /\ path.branches[i].index >= 0
                        /\ path.branches[i].index < Len(t.heap[path.branches[i].node].nodes)
                 /\ path.leafIndex >= 0
                 /\ path.leafIndex < Len(entries)]
        ELSE IF path.leafIndex >= Len(entries) - 1
        THEN LET popCount == NextPopCount(t, path.branches, 0)
                 found == popCount <= Len(path.branches) - 1
             IN  IF ~found
                 THEN [path EXCEPT !.leafIndex = Len(entries), !.on = FALSE]
                 ELSE LET kept == Take(path.branches, Len(path.branches) - popCount)
                          branch == kept[Len(kept)]
                          moved == [kept EXCEPT ![Len(kept)].index = @ + 1]
                      IN  moveToFirstChild(t, branch, [path EXCEPT !.branches = moved])
        ELSE [path EXCEPT !.leafIndex = @ + 1, !.on = TRUE]

\* internalPrior's loop: the number of trailing frames that sit on the first
\* child of their branch
RECURSIVE PriorPopCount(_, _)
PriorPopCount(branches, popCount) ==
    LET lastFrame == Len(branches) - 1
    IN  IF popCount <= lastFrame /\ branches[lastFrame - popCount + 1].index = 0
        THEN PriorPopCount(branches, popCount + 1)
        ELSE popCount

internalPrior(t, path) ==
    IF ~isValid(t, path) THEN StalePath
    ELSE IF path.leafIndex <= 0
    THEN LET popCount == PriorPopCount(path.branches, 0)
             opening == popCount <= Len(path.branches) - 1
         IN  IF ~opening
             THEN [path EXCEPT !.leafIndex = 0, !.on = FALSE]
             ELSE LET kept == Take(path.branches, Len(path.branches) - popCount)
                      branch == kept[Len(kept)]
                      moved == [kept EXCEPT ![Len(kept)].index = @ - 1]
                  IN  moveToLastChild(t, branch, [path EXCEPT !.branches = moved])
    ELSE [path EXCEPT !.leafIndex = @ - 1, !.on = TRUE]

\* moveNext / movePrior: the Path as the call leaves it, or StalePath
moveNext(t, path) == IF ~isValid(t, path) THEN StalePath ELSE internalNext(t, path)

movePrior(t, path) == IF ~isValid(t, path) THEN StalePath ELSE internalPrior(t, path)

\* next / prior: moveNext / movePrior of a clone
next(t, path) == moveNext(t, path)

prior(t, path) == movePrior(t, path)

\* at: the entry under the Path, undefined off an entry, or StalePath
\* at that does not validate the Path
atUnchecked(t, path) ==
    IF path.on THEN EntryAt(t.heap[path.leafNode].entries, path.leafIndex)
    ELSE undefined

at(t, path) ==
    IF ~isValid(t, path) THEN StalePath
    ELSE IF path.on THEN EntryAt(t.heap[path.leafNode].entries, path.leafIndex)
    ELSE undefined

get(t, key) == at(t, find(t, key))

-----------------------------------------------------------------------------
(* Insertion.  The mutating helpers work on a context                      *)
(* c = [t |-> the tree, path |-> the Path being built]: the source mutates *)
(* the nodes and the Path in place, the operators return the context as    *)
(* the call leaves it.                                                     *)

Split(key, right, indexDelta) == [key |-> key, right |-> right, indexDelta |-> indexDelta]

\* leafInsert / branchInsert returning undefined
NoSplit == [none |-> TRUE]

\* new LeafNode(...) / new BranchNode(...): the store with the object added
Alloc(heap, node) == Append(heap, node)

\* leafInsert with the split one entry further up
leafInsertAbove(c, entry) ==
    LET leaf == c.path.leafNode
        index == c.path.leafIndex
        entries == c.t.heap[leaf].entries
    IN  IF Len(entries) < NodeCapacity
        THEN [c |-> [c EXCEPT !.t.heap[leaf].entries = InsertAt(entries, index, entry)],
              split |-> NoSplit]
        ELSE LET midIndex == (Len(entries) + 2) \div 2
                 kept == Take(entries, midIndex)
                 moveEntries == Drop(entries, midIndex)
                 newLeaf == Len(c.t.heap) + 1
                 \* moveEntries is the new leaf's own array: the insertion below
                 \* is seen by moveEntries[0]
                 newEntries == IF index < midIndex THEN moveEntries
                               ELSE InsertAt(moveEntries, index - Len(kept), entry)
                 heap1 == Alloc(c.t.heap, LeafNode(newEntries))
                 heap2 == IF index < midIndex
                          THEN [heap1 EXCEPT ![leaf].entries = InsertAt(kept, index, entry)]
                          ELSE [heap1 EXCEPT ![leaf].entries = kept]
                 path2 == IF index < midIndex THEN c.path
                          ELSE [c.path EXCEPT !.leafNode = newLeaf,
                                              !.leafIndex = index - Len(kept)]
             IN  [c |-> [t |-> [c.t EXCEPT !.heap = heap2], path |-> path2],
                  split |-> Split(keyFromEntry(EntryAt(newEntries, 0)), newLeaf,
                                  IF index < midIndex THEN 0 ELSE 1)]

leafInsert(c, entry) ==
    LET leaf == c.path.leafNode
        index == c.path.leafIndex
        entries == c.t.heap[leaf].entries
    IN  IF Len(entries) < NodeCapacity
        THEN [c |-> [c EXCEPT !.t.heap[leaf].entries = InsertAt(entries, index, entry)],
              split |-> NoSplit]
        ELSE LET midIndex == (Len(entries) + 1) \div 2
                 kept == Take(entries, midIndex)
                 moveEntries == Drop(entries, midIndex)
                 newLeaf == Len(c.t.heap) + 1
                 \* moveEntries is the new leaf's own array: the insertion below
                 \* is seen by moveEntries[0]
                 newEntries == IF index < midIndex THEN moveEntries
                               ELSE InsertAt(moveEntries, index - Len(kept), entry)
                 heap1 == Alloc(c.t.heap, LeafNode(newEntries))
                 heap2 == IF index < midIndex
                          THEN [heap1 EXCEPT ![leaf].entries = InsertAt(kept, index, entry)]
                          ELSE [heap1 EXCEPT ![leaf].entries = kept]
                 path2 == IF index < midIndex THEN c.path
                          ELSE [c.path EXCEPT !.leafNode = newLeaf,
                                              !.leafIndex = index - Len(kept)]
             IN  [c |-> [t |-> [c.t EXCEPT !.heap = heap2], path |-> path2],
                  split |-> Split(keyFromEntry(EntryAt(newEntries, 0)), newLeaf,
                                  IF index < midIndex THEN 0 ELSE 1)]

branchInsert(c, branchIndex, split) ==
    LET pathBranch == c.path.branches[branchIndex + 1]
        index == pathBranch.index
        node == pathBranch.node
        index1 == index + split.indexDelta
        partitions1 == InsertAt(c.t.heap[node].partitions, index, split.key)
        nodes1 == InsertAt(c.t.heap[node].nodes, index + 1, split.right)
    IN  IF Len(nodes1) <= NodeCapacity
        THEN [c |-> [t |-> [c.t EXCEPT !.heap[node].partitions = partitions1,
                                       !.heap[node].nodes = nodes1],
                     path |-> [c.path EXCEPT !.branches[branchIndex + 1].index = index1]],
              split |-> NoSplit]
        ELSE LET midIndex == Len(nodes1) \div 2
                 movePartitions == Drop(partitions1, midIndex)
                 newPartition == partitions1[midIndex]
                 moveNodes == Drop(nodes1, midIndex)
                 newBranch == Len(c.t.heap) + 1
                 heap1 == Alloc(c.t.heap, BranchNode(movePartitions, moveNodes))
                 heap2 == [heap1 EXCEPT ![node].partitions = Take(partitions1, midIndex - 1),
                                        ![node].nodes = Take(nodes1, midIndex)]
                 index2 == IF index1 >= midIndex THEN index1 - midIndex ELSE index1
             IN  [c |-> [t |-> [c.t EXCEPT !.heap = heap2],
                         path |-> [c.path EXCEPT !.branches[branchIndex + 1].index = index2]],
                  split |-> Split(newPartition, newBranch,
                                  IF index2 < midIndex THEN 0 ELSE 1)]

\* internalInsertAt's loop: while (split && branchIndex >= 0)
RECURSIVE InsertUp(_, _)
InsertUp(r, branchIndex) ==
    IF r.split # NoSplit /\ branchIndex >= 0
    THEN InsertUp(branchInsert(r.c, branchIndex, r.split), branchIndex - 1)
    ELSE r

\* internalInsertAt without its tail: the root stays what it was
noRoot(r) == r.c

\* internalInsertAt's tail: a split that reached the root makes a new root
\* branch over the old root and the split's right node
growRoot(r) ==
    IF r.split # NoSplit
    THEN [t |-> [r.c.t EXCEPT !.heap = Alloc(@, BranchNode(<<r.split.key>>,
                                                          <<r.c.t.root, r.split.right>>)),
                              !.root = Len(r.c.t.heap) + 1],
          path |-> [r.c.path EXCEPT !.branches =
                       <<PathBranch(Len(r.c.t.heap) + 1, r.split.indexDelta)>> \o @]]
    ELSE r.c

internalInsertAt(c, entry) ==
    growRoot(InsertUp(leafInsert(c, entry), Len(c.path.branches) - 1))

\* internalInsert once find has returned path
insertAtFound(t, path, entry) ==
    IF path.on
    THEN [t |-> t, path |-> [path EXCEPT !.on = FALSE]]
    ELSE [internalInsertAt([t |-> t, path |-> path], entry) EXCEPT !.path.on = TRUE]

internalInsert(t, entry) == insertAtFound(t, find(t, keyFromEntry(entry)), entry)

\* insert's tail that advances the tree's version and leaves the Path's stamp
versionOnly(c) ==
    IF c.path.on THEN [c EXCEPT !.t.version = @ + 1] ELSE c

\* insert's tail: path.version = ++this._version for a Path that is on
stamp(c) ==
    IF c.path.on
    THEN [c EXCEPT !.t.version = @ + 1, !.path.version = c.t.version + 1]
    ELSE c

\* insert: the tree and the returned Path
\* insert that advances the tree's version and leaves the Path's stamp
insertUnstamped(t, entry) == versionOnly(internalInsert(t, entry))

insert(t, entry) == stamp(internalInsert(t, entry))

-----------------------------------------------------------------------------
(* Deletion and rebalancing.  The nodes a case of the rebalance touches   *)
(* (the node, its sibling, their parent) are distinct objects, so a case   *)
(* is one update of the store whose right-hand sides read the store as it  *)
(* was before the case.                                                    *)

SetEntries(heap, node, entries) == [heap EXCEPT ![node].entries = entries]

SetPartitions(heap, node, partitions) == [heap EXCEPT ![node].partitions = partitions]

\* updatePartition: the store as the call leaves it
RECURSIVE updatePartition(_, _, _, _, _)
updatePartition(heap, nodeIndex, path, depth, newKey) ==
    LET pathBranch == path.branches[depth + 1]
    IN  IF nodeIndex > 0
        THEN SetPartitions(heap, pathBranch.node,
                           SetAt(heap[pathBranch.node].partitions, nodeIndex - 1, newKey))
        ELSE IF depth # 0
        THEN updatePartition(heap, path.branches[depth].index, path, depth - 1, newKey)
        ELSE heap

\* what rebalanceLeaf / rebalanceBranch return: the context and the new
\* root (0: undefined, the root stays)
Rebalanced(heap, path, newRoot) == [heap |-> heap, path |-> path, newRoot |-> newRoot]

RECURSIVE rebalanceBranch(_, _, _)

\* rebalanceBranch's merge of the right sibling once the arrays are spliced
\* (heap): the parent's first partition is handed to updatePartition
branchMergedRight(heap, path, depth, pNode, pIndex) ==
    rebalanceBranch(IF pIndex = 0 /\ Len(heap[pNode].partitions) > 0
                    THEN updatePartition(heap, pIndex, path, depth - 1,
                                         heap[pNode].partitions[1])
                    ELSE heap,
                    path, depth - 1)

rebalanceBranch(heap, path, depth) ==
    LET pathBranch == path.branches[depth + 1]
        branch == pathBranch.node
    IN  IF depth = 0 /\ Len(heap[branch].partitions) = 0
        THEN Rebalanced(heap, path,
                        IF depth + 1 < Len(path.branches)
                        THEN path.branches[depth + 2].node ELSE path.leafNode)
        ELSE IF depth = 0 \/ Len(heap[branch].nodes) >= DoubleCapacity
        THEN Rebalanced(heap, path, 0)
        ELSE
        LET parent == path.branches[depth]
            pIndex == parent.index
            pNode == parent.node
            rightSib == IF pIndex < Len(heap[pNode].nodes)
                        THEN NodeAt(heap[pNode].nodes, pIndex + 1) ELSE 0
            leftSib == IF pIndex > 0 THEN NodeAt(heap[pNode].nodes, pIndex - 1) ELSE 0
        IN  IF rightSib # 0 /\ Len(heap[rightSib].nodes) > HalfCapacity
            THEN \* borrow from the right sibling
                 Rebalanced(
                     updatePartition(
                         [heap EXCEPT
                            ![branch].partitions =
                                Append(@, KeyAt(heap[pNode].partitions, pIndex)),
                            ![branch].nodes = Append(@, Head(heap[rightSib].nodes)),
                            ![rightSib].nodes = Tail(@),
                            ![rightSib].partitions = RemoveAt(@, 0)],
                         pIndex + 1, path, depth - 1, KeyAt(heap[rightSib].partitions, 0)),
                     path, 0)
            ELSE IF leftSib # 0 /\ Len(heap[leftSib].nodes) > HalfCapacity
            THEN \* borrow from the left sibling
                 Rebalanced(
                     updatePartition(
                         [heap EXCEPT
                            ![branch].partitions =
                                <<KeyAt(heap[pNode].partitions, pIndex - 1)>> \o @,
                            ![branch].nodes =
                                <<heap[leftSib].nodes[Len(heap[leftSib].nodes)]>> \o @,
                            ![leftSib].nodes = Take(@, Len(@) - 1),
                            ![leftSib].partitions = Take(@, Len(@) - 1)],
                         pIndex, [path EXCEPT !.branches[depth + 1].index = @ + 1],
                         depth - 1,
                         KeyAt(heap[leftSib].partitions, Len(heap[leftSib].partitions) - 1)),
                     [path EXCEPT !.branches[depth + 1].index = @ + 1], 0)
            ELSE IF rightSib # 0
                    /\ Len(heap[rightSib].nodes) + Len(heap[branch].nodes) <= NodeCapacity
            THEN \* merge the right sibling into this branch
                 branchMergedRight(
                     [heap EXCEPT
                        ![pNode].partitions = RemoveAt(@, pIndex),
                        ![pNode].nodes = RemoveAt(@, pIndex + 1),
                        ![branch].partitions =
                            Append(@, KeyAt(heap[pNode].partitions, pIndex))
                                \o heap[rightSib].partitions,
                        ![branch].nodes = @ \o heap[rightSib].nodes],
                     path, depth, pNode, pIndex)
            ELSE IF leftSib # 0
                    /\ Len(heap[leftSib].nodes) + Len(heap[branch].nodes) <= NodeCapacity
            THEN \* merge this branch into the left sibling
                 rebalanceBranch(
                     [heap EXCEPT
                        ![pNode].partitions = RemoveAt(@, pIndex - 1),
                        ![pNode].nodes = RemoveAt(@, pIndex),
                        ![leftSib].partitions =
                            Append(@, KeyAt(heap[pNode].partitions, pIndex - 1))
                                \o heap[branch].partitions,
                        ![leftSib].nodes = @ \o heap[branch].nodes],
                     [path EXCEPT
                        !.branches[depth + 1].node = leftSib,
                        !.branches[depth + 1].index =
                            @ + Len(heap[leftSib].nodes) + Len(heap[branch].nodes)],
                     depth - 1)
            ELSE Rebalanced(heap, path, 0)

\* rebalanceLeaf's merge of the right sibling once the arrays are spliced
\* (heap): a leaf that is its parent's first node hands its first key to
\* updatePartition
leafMergedRight(heap, path, depth, pIndex) ==
    rebalanceBranch(IF pIndex = 0
                    THEN updatePartition(heap, pIndex, path, depth - 1,
                             keyFromEntry(EntryAt(heap[path.leafNode].entries, 0)))
                    ELSE heap,
                    path, depth - 1)

\* a rebalanceLeaf that leaves the leaf as the delete left it
leaveLeaf(heap, path, depth) == Rebalanced(heap, path, 0)

rebalanceLeaf(heap, path, depth) ==
    IF depth = 0 \/ Len(heap[path.leafNode].entries) >= HalfCapacity
    THEN Rebalanced(heap, path, 0)
    ELSE
    LET leaf == path.leafNode
        parent == path.branches[depth]
        pIndex == parent.index
        pNode == parent.node
        rightSib == IF pIndex < Len(heap[pNode].nodes)
                    THEN NodeAt(heap[pNode].nodes, pIndex + 1) ELSE 0
        leftSib == IF pIndex > 0 THEN NodeAt(heap[pNode].nodes, pIndex - 1) ELSE 0
    IN  IF rightSib # 0 /\ Len(heap[rightSib].entries) > HalfCapacity
        THEN \* borrow from the right sibling
             Rebalanced(
                 updatePartition(
                     [heap EXCEPT ![rightSib].entries = Tail(@),
                                  ![leaf].entries = Append(@, Head(heap[rightSib].entries))],
                     pIndex + 1, path, depth - 1,
                     keyFromEntry(EntryAt(Tail(heap[rightSib].entries), 0))),
                 path, 0)
        ELSE IF leftSib # 0 /\ Len(heap[leftSib].entries) > HalfCapacity
        THEN \* borrow from the left sibling
             Rebalanced(
                 updatePartition(
                     [heap EXCEPT
                        ![leftSib].entries = Take(@, Len(@) - 1),
                        ![leaf].entries =
                            <<heap[leftSib].entries[Len(heap[leftSib].entries)]>> \o @],
                     pIndex, path, depth - 1,
                     keyFromEntry(heap[leftSib].entries[Len(heap[leftSib].entries)])),
                 [path EXCEPT !.leafIndex = @ + 1], 0)
        ELSE IF rightSib # 0
                /\ Len(heap[rightSib].entries) + Len(heap[leaf].entries) <= NodeCapacity
        THEN \* merge the right sibling into the leaf
             leafMergedRight(
                 [heap EXCEPT ![leaf].entries = @ \o heap[rightSib].entries,
                              ![pNode].partitions = RemoveAt(@, pIndex),
                              ![pNode].nodes = RemoveAt(@, pIndex + 1)],
                 path, depth, pIndex)
        ELSE IF leftSib # 0
                /\ Len(heap[leftSib].entries) + Len(heap[leaf].entries) <= NodeCapacity
        THEN \* merge the leaf into the left sibling
             rebalanceBranch(
                 [heap EXCEPT ![leftSib].entries = @ \o heap[leaf].entries,
                              ![pNode].partitions = RemoveAt(@, pIndex - 1),
                              ![pNode].nodes = RemoveAt(@, pIndex)],
                 [path EXCEPT
                    !.leafNode = leftSib,
                    !.leafIndex = @ + Len(heap[leftSib].entries) + Len(heap[leaf].entries)],
                 depth - 1)
        ELSE Rebalanced(heap, path, 0)

\* internalDelete's tail that keeps the root whatever rebalanceLeaf returned
keepRoot(t, r) ==
    [t |-> [t EXCEPT !.heap = r.heap],
     path |-> [r.path EXCEPT !.on = FALSE],
     result |-> TRUE]

\* internalDelete's tail: the node rebalanceLeaf returned, if any, becomes
\* the root; the Path is left off
replaceRoot(t, r) ==
    [t |-> [t EXCEPT !.heap = r.heap,
                     !.root = IF r.newRoot # 0 THEN r.newRoot ELSE @],
     path |-> [r.path EXCEPT !.on = FALSE],
     result |-> TRUE]

\* internalDelete once the entry is spliced out (heap): the partition fix
\* for a first entry, and the rebalance
afterSplice(t, heap, path) ==
    IF Len(path.branches) > 0
    THEN replaceRoot(t,
             rebalanceLeaf(
                 IF path.leafIndex = 0
                 THEN updatePartition(heap, path.branches[Len(path.branches)].index,
                          path, Len(path.branches) - 1,
                          keyFromEntry(EntryAt(heap[path.leafNode].entries, path.leafIndex)))
                 ELSE heap,
                 path, Len(path.branches)))
    ELSE [t |-> [t EXCEPT !.heap = heap],
          path |-> [path EXCEPT !.on = FALSE],
          result |-> TRUE]

\* internalDelete: the tree, the given Path as the call leaves it, and the
\* returned flag
internalDelete(t, path) ==
    IF path.on
    THEN afterSplice(t, SetEntries(t.heap, path.leafNode,
                                   RemoveAt(t.heap[path.leafNode].entries, path.leafIndex)),
                     path)
    ELSE [t |-> t, path |-> path, result |-> FALSE]

\* deleteAt's tail that does not advance the tree's version
notCounted(r) == [t |-> r.t, path |-> r.path, result |-> r.result, thrown |-> FALSE]

\* deleteAt's tail: if (result) ++this._version
counted(r) ==
    [t |-> IF r.result THEN [r.t EXCEPT !.version = @ + 1] ELSE r.t,
     path |-> r.path, result |-> r.result, thrown |-> FALSE]

\* deleteAt: the tree, the given Path as the call leaves it, the returned
\* flag, and whether the call threw
\* deleteAt that does not advance the tree's version
deleteAtSameVersion(t, path) ==
    IF ~isValid(t, path)
    THEN [t |-> t, path |-> path, result |-> FALSE, thrown |-> TRUE]
    ELSE notCounted(internalDelete(t, path))

deleteAt(t, path) ==
    IF ~isValid(t, path)
    THEN [t |-> t, path |-> path, result |-> FALSE, thrown |-> TRUE]
    ELSE counted(internalDelete(t, path))

-----------------------------------------------------------------------------
(* Update, upsert, merge.                                                  *)

\* internalUpdate's key change once the old entry is deleted (del): the
\* entry is found again under its new key
refound(del, newKey) ==
    [t |-> del.t, path |-> find(del.t, newKey), wasUpdate |-> FALSE, same |-> FALSE]

\* internalUpdate's key change once internalInsert has returned (ins): a
\* successful insert is followed by the delete of the old key
reinserted(ins, oldKey, newKey) ==
    IF ins.path.on
    THEN refound(internalDelete(ins.t, find(ins.t, oldKey)), newKey)
    ELSE [t |-> ins.t, path |-> ins.path, wasUpdate |-> FALSE, same |-> FALSE]

\* internalUpdate: the tree, result[0], result[1] (wasUpdate), and whether
\* result[0] is the given Path object itself
internalUpdate(t, path, newEntry) ==
    IF path.on
    THEN IF compareKeys(keyFromEntry(EntryAt(t.heap[path.leafNode].entries,
                                             path.leafIndex)),
                        keyFromEntry(newEntry)) # 0
         THEN reinserted(internalInsert(t, newEntry),
                         keyFromEntry(EntryAt(t.heap[path.leafNode].entries,
                                              path.leafIndex)),
                         keyFromEntry(newEntry))
         ELSE [t |-> [t EXCEPT !.heap[path.leafNode].entries =
                                   SetAt(@, path.leafIndex, newEntry)],
               path |-> path, wasUpdate |-> TRUE, same |-> TRUE]
    ELSE [t |-> t, path |-> path, wasUpdate |-> TRUE, same |-> TRUE]

\* updateAt's tail: result[0].version = ++this._version for a Path that is
\* on; the given Path is result[0] when internalUpdate returned it
stampUpdated(r, path) ==
    IF r.path.on
    THEN [t |-> [r.t EXCEPT !.version = @ + 1],
          path |-> [r.path EXCEPT !.version = r.t.version + 1],
          wasUpdate |-> r.wasUpdate,
          given |-> IF r.same THEN [r.path EXCEPT !.version = r.t.version + 1] ELSE path,
          thrown |-> FALSE]
    ELSE [t |-> r.t, path |-> r.path, wasUpdate |-> r.wasUpdate,
          given |-> IF r.same THEN r.path ELSE path, thrown |-> FALSE]

\* updateAt: the tree, the returned [path, wasUpdate], the given Path as the
\* call leaves it, and whether the call threw
\* updateAt that does not validate the Path
updateAtUnchecked(t, path, newEntry) ==
    stampUpdated(internalUpdate(t, path, newEntry), path)

updateAt(t, path, newEntry) ==
    IF ~isValid(t, path)
    THEN [t |-> t, path |-> path, wasUpdate |-> FALSE, given |-> path, thrown |-> TRUE]
    ELSE stampUpdated(internalUpdate(t, path, newEntry), path)

\* upsert's tail: path.version = ++this._version
stampUpserted(c) ==
    [t |-> [c.t EXCEPT !.version = @ + 1],
     path |-> [c.path EXCEPT !.version = c.t.version + 1]]

\* upsert once find has returned path
upsertAtFound(t, path, entry) ==
    stampUpserted(IF path.on
                  THEN [t |-> [t EXCEPT !.heap[path.leafNode].entries =
                                           SetAt(@, path.leafIndex, entry)],
                        path |-> path]
                  ELSE internalInsertAt([t |-> t, path |-> path], entry))

\* upsert: the tree and the returned Path
upsert(t, entry) == upsertAtFound(t, find(t, keyFromEntry(entry)), entry)

\* merge's tail for a stored key: result[0].version = ++this._version for a
\* Path that is on, after updateAt has returned (r)
stampMerged(r) ==
    IF r.path.on
    THEN [t |-> [r.t EXCEPT !.version = @ + 1],
          path |-> [r.path EXCEPT !.version = r.t.version + 1],
          wasUpdate |-> r.wasUpdate]
    ELSE [t |-> r.t, path |-> r.path, wasUpdate |-> r.wasUpdate]

\* merge's tail for a new key, after internalInsertAt has returned (c)
stampInserted(c) ==
    [t |-> [c.t EXCEPT !.version = @ + 1],
     path |-> [c.path EXCEPT !.on = TRUE, !.version = c.t.version + 1],
     wasUpdate |-> FALSE]

\* merge once find has returned path
mergeAtFound(t, path, newEntry, updated) ==
    IF path.on
    THEN stampMerged(updateAt(t, path, updated))
    ELSE stampInserted(internalInsertAt([t |-> t, path |-> path], newEntry))

\* merge, for a getUpdated callback that returns `updated` and leaves the
\* tree alone: the tree and the returned [path, wasUpdate]
merge(t, newEntry, updated) ==
    mergeAtFound(t, find(t, keyFromEntry(newEntry)), newEntry, updated)

\* the tree as a getUpdated callback that makes the call leaves it
called(t, call) ==
    CASE call.op = "insert" -> insert(t, call.entry).t
      [] call.op = "upsert" -> upsert(t, call.entry).t
      [] call.op = "deleteAt" -> deleteAt(t, find(t, call.key)).t
      [] OTHER -> t

\* merge's tail for a stored key, after updateAt has returned (r) or thrown:
\* the error is not caught
stampMergedUnlessThrown(r) ==
    IF r.thrown
    THEN [t |-> r.t, path |-> r.given, wasUpdate |-> FALSE, thrown |-> TRUE]
    ELSE stampMerged(r) @@ [thrown |-> FALSE]

\* merge once find has returned path, for a getUpdated callback that leaves
\* the tree as `after` and returns `updated`: the callback runs before
\* updateAt is entered, and is not called for a new key
mergeCalling(t, path, after, newEntry, updated) ==
    IF path.on
    THEN stampMergedUnlessThrown(updateAt(after, path, updated))
    ELSE stampInserted(internalInsertAt([t |-> t, path |-> path], newEntry))
             @@ [thrown |-> FALSE]

-----------------------------------------------------------------------------
(* Search and insert under a comparator the caller gave the constructor.   *)
(* A search returns what it found, whether compareKeys threw, and the      *)
(* pairs of keys it handed to the comparator.                              *)

\* the key the "skewedAt" comparator orders inconsistently
SkewKey == 3

\* the two keys the "skewedPair" comparator orders inconsistently
SkewLow == 2

SkewHigh == 5

\* the comparators: the default; the test's, which answers -1 for a < b and
\* for a > b; one that answers -1 whenever exactly one side is SkewKey; and
\* one that answers -1 for SkewLow against SkewHigh either way round
compareBy(c, a, b) ==
    IF a = b THEN 0
    ELSE IF c = "skewed" THEN -1
    ELSE IF c = "skewedAt" /\ (a = SkewKey \/ b = SkewKey) THEN -1
    ELSE IF c = "skewedPair" /\ {a, b} = {SkewLow, SkewHigh} THEN -1
    ELSE IF a < b THEN -1 ELSE 1

\* compareKeys without the consistency check
compareKeysUnchecked(c, a, b) ==
    [result |-> compareBy(c, a, b), thrown |-> FALSE]

\* compareKeys: the comparator's answer, or the throw
compareKeysBy(c, a, b) ==
    [result |-> compareBy(c, a, b),
     thrown |-> compareBy(c, a, b) # 0 /\ compareBy(c, a, b) = compareBy(c, b, a)]

RECURSIVE EntrySearchBy(_, _, _, _, _, _)
EntrySearchBy(c, entries, key, lo, hi, compared) ==
    IF lo > hi THEN [on |-> FALSE, index |-> lo, thrown |-> FALSE, compared |-> compared]
    ELSE LET split == (lo + hi) \div 2
             r == compareKeysBy(c, key, keyFromEntry(entries[split + 1]))
             seen == compared \cup {<<key, keyFromEntry(entries[split + 1])>>}
         IN  IF r.thrown
             THEN [on |-> FALSE, index |-> lo, thrown |-> TRUE, compared |-> seen]
             ELSE IF r.result = 0
             THEN [on |-> TRUE, index |-> split, thrown |-> FALSE, compared |-> seen]
             ELSE IF r.result < 0 THEN EntrySearchBy(c, entries, key, lo, split - 1, seen)
             ELSE EntrySearchBy(c, entries, key, split + 1, hi, seen)

RECURSIVE KeySearchBy(_, _, _, _, _, _)
KeySearchBy(c, keys, key, lo, hi, compared) ==
    IF lo > hi THEN [index |-> lo, thrown |-> FALSE, compared |-> compared]
    ELSE LET split == (lo + hi) \div 2
             r == compareKeysBy(c, key, keys[split + 1])
             seen == compared \cup {<<key, keys[split + 1]>>}
         IN  IF r.thrown THEN [index |-> lo, thrown |-> TRUE, compared |-> seen]
             ELSE IF r.result = 0
             THEN [index |-> split + 1, thrown |-> FALSE, compared |-> seen]
             ELSE IF r.result < 0 THEN KeySearchBy(c, keys, key, lo, split - 1, seen)
             ELSE KeySearchBy(c, keys, key, split + 1, hi, seen)

\* getPath: the Path (meaningless after a throw), the throw, and the pairs
\* compared
RECURSIVE getPathBy(_, _, _, _, _)
getPathBy(c, t, node, key, compared) ==
    IF t.heap[node].leaf
    THEN LET r == EntrySearchBy(c, t.heap[node].entries, key, 0,
                                Len(t.heap[node].entries) - 1, compared)
         IN  [path |-> Path(<<>>, node, r.index, r.on, t.version),
              thrown |-> r.thrown, compared |-> r.compared]
    ELSE LET r == KeySearchBy(c, t.heap[node].partitions, key, 0,
                              Len(t.heap[node].partitions) - 1, compared)
         IN  IF r.thrown
             THEN [path |-> Path(<<>>, node, 0, FALSE, t.version),
                   thrown |-> TRUE, compared |-> r.compared]
             ELSE [getPathBy(c, t, t.heap[node].nodes[r.index + 1], key, r.compared)
                      EXCEPT !.path.branches = <<PathBranch(node, r.index)>> \o @]

\* find: the tree is left alone
findBy(c, t, key) == getPathBy(c, t, t.root, key, {}) @@ [t |-> t]

\* insert once find has returned or thrown (f)
insertedBy(t, f, entry) ==
    IF f.thrown THEN f
    ELSE stamp(insertAtFound(t, f.path, entry))
             @@ [thrown |-> FALSE, compared |-> f.compared]

insertBy(c, t, entry) == insertedBy(t, findBy(c, t, keyFromEntry(entry)), entry)

\* a call that compareKeys' throw has ended, with the tree as it then is
Thrown(t, path) ==
    [t |-> t, path |-> path, wasUpdate |-> FALSE, same |-> FALSE, thrown |-> TRUE]

\* internalUpdate's key change once the old entry is deleted (del) and the
\* new key is searched again (f)
refoundBy(del, f) ==
    IF f.thrown THEN Thrown(del.t, f.path)
    ELSE [t |-> del.t, path |-> f.path, wasUpdate |-> FALSE, same |-> FALSE,
          thrown |-> FALSE]

\* internalUpdate's key change once the old key is searched again (f) in the
\* tree the insert has left (t): this.internalDelete(this.find(oldKey))
deletedBy(c, t, f, newKey) ==
    IF f.thrown THEN Thrown(t, f.path)
    ELSE refoundBy(internalDelete(t, f.path),
                   findBy(c, internalDelete(t, f.path).t, newKey))

\* internalUpdate's key change once internalInsert has returned (ins)
reinsertedBy(c, ins, oldKey, newKey) ==
    IF ins.path.on
    THEN deletedBy(c, ins.t, findBy(c, ins.t, oldKey), newKey)
    ELSE [t |-> ins.t, path |-> ins.path, wasUpdate |-> FALSE, same |-> FALSE,
          thrown |-> FALSE]

\* internalUpdate's key change once the new key is searched (f)
changedBy(c, t, f, oldKey, newEntry) ==
    IF f.thrown THEN Thrown(t, f.path)
    ELSE reinsertedBy(c, insertAtFound(t, f.path, newEntry), oldKey,
                      keyFromEntry(newEntry))

\* internalUpdate under the given comparator, for a Path that is on and the
\* key oldKey under it
updatedBy(c, t, path, oldKey, newEntry) ==
    IF compareKeysBy(c, oldKey, keyFromEntry(newEntry)).thrown THEN Thrown(t, path)
    ELSE IF compareKeysBy(c, oldKey, keyFromEntry(newEntry)).result # 0
    THEN changedBy(c, t, findBy(c, t, keyFromEntry(newEntry)), oldKey, newEntry)
    ELSE [t |-> [t EXCEPT !.heap[path.leafNode].entries =
                              SetAt(@, path.leafIndex, newEntry)],
          path |-> path, wasUpdate |-> TRUE, same |-> TRUE, thrown |-> FALSE]

internalUpdateBy(c, t, path, newEntry) ==
    IF path.on
    THEN updatedBy(c, t, path,
                   keyFromEntry(EntryAt(t.heap[path.leafNode].entries, path.leafIndex)),
                   newEntry)
    ELSE [t |-> t, path |-> path, wasUpdate |-> TRUE, same |-> TRUE, thrown |-> FALSE]

\* updateAt's tail: the throw is not caught, and a result is stamped
stampUnlessThrown(r, path) ==
    IF r.thrown
    THEN [t |-> r.t, path |-> r.path, wasUpdate |-> FALSE, given |-> path, thrown |-> TRUE]
    ELSE stampUpdated(r, path)

\* updateAt under the given comparator
updateAtBy(c, t, path, newEntry) ==
    IF ~isValid(t, path)
    THEN [t |-> t, path |-> path, wasUpdate |-> FALSE, given |-> path, thrown |-> TRUE]
    ELSE stampUnlessThrown(internalUpdateBy(c, t, path, newEntry), path)

\* upsert once find has returned or thrown (f)
upsertedBy(t, f, entry) ==
    IF f.thrown THEN [t |-> t, path |-> f.path, thrown |-> TRUE]
    ELSE upsertAtFound(t, f.path, entry) @@ [thrown |-> FALSE]

\* upsert under the given comparator
upsertBy(c, t, entry) == upsertedBy(t, findBy(c, t, keyFromEntry(entry)), entry)

\* merge once find has returned or thrown (f), for a getUpdated callback
\* that returns `updated`
mergedBy(c, t, f, newEntry, updated) ==
    IF f.thrown THEN [t |-> t, path |-> f.path, wasUpdate |-> FALSE, thrown |-> TRUE]
    ELSE IF f.path.on
    THEN stampMergedUnlessThrown(updateAtBy(c, t, f.path, updated))
    ELSE stampInserted(internalInsertAt([t |-> t, path |-> f.path], newEntry))
             @@ [thrown |-> FALSE]

\* merge under the given comparator
mergeBy(c, t, newEntry, updated) ==
    mergedBy(c, t, findBy(c, t, keyFromEntry(newEntry)), newEntry, updated)

-----------------------------------------------------------------------------
(* Iteration, ranges, counting.  A generator is modelled by the sequence   *)
(* of Paths it yields when the tree is not mutated between pulls; the Path *)
(* it yields is one object, moved between pulls, so each element is the    *)
(* Path as it was when yielded.                                            *)

RECURSIVE internalAscending(_, _)
internalAscending(t, path) ==
    IF ~isValid(t, path) THEN <<StalePath>>
    ELSE IF path.on THEN <<path>> \o internalAscending(t, moveNext(t, path))
    ELSE <<>>

RECURSIVE internalDescending(_, _)
internalDescending(t, path) ==
    IF ~isValid(t, path) THEN <<StalePath>>
    ELSE IF path.on THEN <<path>> \o internalDescending(t, movePrior(t, path))
    ELSE <<>>

\* ascending that first moves a Path that is not on an entry to the next entry
ascendingFromNearest(t, path) ==
    internalAscending(t, IF path.on THEN path ELSE internalNext(t, path))

ascending(t, path) == internalAscending(t, path)

descending(t, path) == internalDescending(t, path)

KeyBound(key, inclusive) == [key |-> key, inclusive |-> inclusive]

\* an omitted bound
NoBound == [none |-> TRUE]

KeyRange(firstBound, lastBound, isAscending) ==
    [first |-> firstBound, last |-> lastBound, isAscending |-> isAscending]

findFirst(t, keyRange) ==
    LET startPath == find(t, keyRange.first.key)
    IN  IF ~startPath.on \/ ~keyRange.first.inclusive
        THEN IF keyRange.isAscending THEN internalNext(t, startPath)
             ELSE internalPrior(t, startPath)
        ELSE startPath

findLast(t, keyRange) ==
    LET endPath == find(t, keyRange.last.key)
    IN  IF ~endPath.on \/ ~keyRange.last.inclusive
        THEN IF keyRange.isAscending THEN internalPrior(t, endPath)
             ELSE internalNext(t, endPath)
        ELSE endPath

\* range's loop over the iterable: the Paths it yields before it breaks
RECURSIVE RangeTake(_, _, _, _, _)
RangeTake(t, paths, endPath, endKey, ascendingFactor) ==
    IF paths = <<>> THEN <<>>
    ELSE LET path == Head(paths)
         IN  IF \/ ~path.on
                \/ ~endPath.on
                \/ compareKeys(keyFromEntry(EntryAt(t.heap[path.leafNode].entries,
                                                    path.leafIndex)),
                               endKey) * ascendingFactor > 0
             THEN <<>>
             ELSE <<path>> \o RangeTake(t, Tail(paths), endPath, endKey, ascendingFactor)

range(t, keyRange) ==
    LET startPath == IF keyRange.first # NoBound THEN findFirst(t, keyRange)
                     ELSE IF keyRange.isAscending THEN first(t) ELSE last(t)
        endPath == IF keyRange.last # NoBound THEN findLast(t, keyRange)
                   ELSE IF keyRange.isAscending THEN last(t) ELSE first(t)
        endKey == keyFromEntry(EntryAt(t.heap[endPath.leafNode].entries, endPath.leafIndex))
        iterable == IF keyRange.isAscending THEN internalAscending(t, startPath)
                    ELSE internalDescending(t, startPath)
    IN  RangeTake(t, iterable, endPath, endKey, IF keyRange.isAscending THEN 1 ELSE -1)

\* the number getCount returns
Counted(result) == [count |-> result]

\* getCount's ascending loop: while (path.on) the rest of the leaf is added
\* and internalNext moves on from the leaf's last entry; its throw ends the
\* call
RECURSIVE CountUp(_, _, _)
CountUp(t, path, result) ==
    IF path = TypeError THEN TypeError
    ELSE IF path.on
    THEN LET len == Len(t.heap[path.leafNode].entries)
         IN  CountUp(t, internalNext(t, [path EXCEPT !.leafIndex = len - 1]),
                     result + len - path.leafIndex)
    ELSE Counted(result)

\* getCount's descending loop: while (path.on) the leaf up to the entry is
\* added and internalPrior, which validates the Path, moves on from the
\* leaf's first entry; its throw ends the call
RECURSIVE CountDown(_, _, _)
CountDown(t, path, result) ==
    IF path \in {StalePath, TypeError} THEN path
    ELSE IF path.on
    THEN CountDown(t, internalPrior(t, [path EXCEPT !.leafIndex = 0]),
                   result + path.leafIndex + 1)
    ELSE Counted(result)

\* getCount's argument: { path, ascending }
From(path, isAscending) == [path |-> path, ascending |-> isAscending]

\* getCount(from): the number, or the throw
getCountFrom(t, from) ==
    IF from.ascending THEN CountUp(t, from.path, 0) ELSE CountDown(t, from.path, 0)

\* getCount() without a starting Path
getCount(t) == CountUp(t, first(t), 0).count

-----------------------------------------------------------------------------
(* The node store in canonical form: exactly the nodes reachable from the  *)
(* root and from the Paths the caller holds, numbered in the order a       *)
(* depth-first walk from the root, then from each Path, first meets them.  *)

RECURSIVE Visit(_, _, _)
RECURSIVE VisitAll(_, _, _)
Visit(heap, order, node) ==
    IF node = 0 \/ \E i \in 1..Len(order) : order[i] = node THEN order
    ELSE VisitAll(heap, Append(order, node), heap[node].nodes)

VisitAll(heap, order, nodes) ==
    IF nodes = <<>> THEN order
    ELSE VisitAll(heap, Visit(heap, order, Head(nodes)), Tail(nodes))

PathNodes(path) == [i \in 1..Len(path.branches) |-> path.branches[i].node] \o <<path.leafNode>>

Renumber(order, node) == IF node = 0 THEN 0 ELSE CHOOSE i \in 1..Len(order) : order[i] = node

RenumberPath(order, path) ==
    [path EXCEPT !.leafNode = Renumber(order, @),
                 !.branches = [i \in 1..Len(@) |->
                                  PathBranch(Renumber(order, @[i].node), @[i].index)]]

\* the tree t and the Paths p and q with the nodes numbered as in order
RenumberAll(order, t, p, q) ==
    [t |-> [heap |-> [i \in 1..Len(order) |->
                        [t.heap[order[i]] EXCEPT !.nodes =
                            [j \in 1..Len(@) |-> Renumber(order, @[j])]]],
            root |-> Renumber(order, t.root),
            version |-> t.version],
     p |-> RenumberPath(order, p),
     q |-> RenumberPath(order, q)]

\* the tree t and the Paths p and q, renumbered
canon(t, p, q) ==
    RenumberAll(VisitAll(t.heap, <<>>, <<t.root>> \o PathNodes(p) \o PathNodes(q)),
                t, p, q)

-----------------------------------------------------------------------------
(* The state: a tree, the caller's view of it, and the caller's steps.     *)

VARIABLES
    heap,       \* the node objects
    root,       \* BTree._root
    version,    \* BTree._version
    path,       \* a Path the caller obtained earlier and still holds
    ret,        \* the last call: its name, arguments and what it returned
    ref,        \* the entries a reference ordered map holds after the same calls
    ops,        \* the number of calls made after the bulk load
    iter,       \* the iterator the caller is pulling from, if any
    comparator  \* BTree.compare, the constructor's second argument

vars == <<heap, root, version, path, ret, ref, ops, iter, comparator>>

\* the tree object
T == [heap |-> heap, root |-> root, version |-> version]

\* the largest key the caller uses
MaxKey == 47

\* the caller's free calls use the keys 1..MaxSmall while the tree holds no
\* other key
MaxSmall == 3

\* the caller's free mutations stop when the version reaches MaxVersion
MaxVersion == 3

\* the number of mutations the caller makes on a bulk-loaded tree
MaxOps == 2

Keys == 1..MaxKey

SmallKeys == 1..MaxSmall

Entry(k, v) == [id |-> k, value |-> v]

RefKeys == {e.id : e \in ref}

\* the tree under node as a value: a leaf's entries, or a branch's partitions
\* and the trees under its nodes
RECURSIVE TreeOf(_, _)
TreeOf(h, node) ==
    IF h[node].leaf THEN h[node].entries
    ELSE <<h[node].partitions,
           [i \in 1..Len(h[node].nodes) |-> TreeOf(h, h[node].nodes[i])]>>

\* the tree's entries and node structure
Tree == TreeOf(heap, root)

\* the entries stored in the leaves under node, left to right
RECURSIVE Stored(_, _)
Stored(h, node) ==
    IF h[node].leaf THEN h[node].entries
    ELSE LET RECURSIVE Cat(_)
             Cat(nodes) == IF nodes = <<>> THEN <<>>
                           ELSE Stored(h, Head(nodes)) \o Cat(Tail(nodes))
         IN  Cat(h[node].nodes)

\* the tree, the held Path and the call's record become the renumbered tree
\* and Paths c and the record r
Settle(c, r) ==
    /\ heap' = c.t.heap
    /\ root' = c.t.root
    /\ version' = c.t.version
    /\ path' = c.p
    /\ ret' = [r EXCEPT !.path = c.q]
    /\ UNCHANGED comparator

\* the state made of the renumbered tree and Paths c and the call's record r,
\* for a call that is not a pull from the iterator
LeaveAs(c, r) == Settle(c, r) /\ UNCHANGED iter

\* no iterator is open
NoIterator == [state |-> "none"]

\* the state as a call leaves it: tree t, held Path p, and the call's record r
\* (with the Path it returned, or the held Path when it returned none)
Leave(t, p, r) == LeaveAs(canon(t, p, r.path), r)

\* the state as a call that returned r (the tree r.t, the Path r.path and
\* the call's other results) leaves it, the held Path staying as it is: the
\* call's record is rec with what the call returned
Returned(r, rec) == Leave(r.t, path, rec @@ [f \in DOMAIN r \ {"t"} |-> r[f]])

\* new BTree(keyFromEntry, compare): an empty tree
Constructed(compare_) ==
    /\ heap = <<LeafNode(<<>>)>>
    /\ root = 1
    /\ version = 0
    /\ path = Path(<<>>, 1, 0, FALSE, 0)
    /\ ret = [op |-> "new", path |-> Path(<<>>, 1, 0, FALSE, 0)]
    /\ ref = {}
    /\ ops = 0
    /\ iter = NoIterator
    /\ comparator = compare_

Init == Constructed("default")

(* The bulk load: the even keys in ascending order with value 0, as the    *)
(* tests' addRange does, into a new tree and before the caller takes a     *)
(* Path.                                                                   *)
Load(e) ==
    /\ ops = 0
    /\ version = Cardinality(ref)
    /\ path.version = 0
    /\ e.value = 0
    /\ e.id \in Keys
    /\ e.id % 2 = 0
    /\ RefKeys = {k \in Keys : k % 2 = 0 /\ k < e.id}

(* A free mutation: any entry over the small keys, while the tree holds    *)
(* small keys only.                                                        *)
Free(e) ==
    /\ version < MaxVersion
    /\ e.id \in SmallKeys
    /\ RefKeys \subseteq SmallKeys

\* the caller takes and uses Paths while the tree holds small keys only
Small == RefKeys \subseteq SmallKeys

\* the keys the caller looks up: up to one past the largest stored
Near(k) == k <= 1 + CHOOSE x \in RefKeys \cup {0} : \A y \in RefKeys : y <= x

\* what the reference map holds after an insert / a put / a removal
RefInsert(e) == IF e.id \in RefKeys THEN ref ELSE ref \cup {e}
RefPut(e) == {x \in ref : x.id # e.id} \cup {e}
RefRemove(k) == {x \in ref : x.id # k}

-----------------------------------------------------------------------------
(* The calls.                                                              *)

\* tree.insert(e)
Insert(e) ==
    /\ IF Load(e) THEN TRUE ELSE Free(e)
    /\ Returned(insert(T, e), [op |-> "insert", entry |-> e])
    /\ ref' = RefInsert(e)
    /\ UNCHANGED ops

\* tree.upsert(e)
Upsert(e) ==
    /\ IF Load(e) THEN TRUE ELSE Free(e)
    /\ Returned(upsert(T, e), [op |-> "upsert", entry |-> e])
    /\ ref' = RefPut(e)
    /\ UNCHANGED ops

\* tree.merge(e, existing => u): the record's entry is the one merge is to
\* write, e for a new key and u for a stored one
Merge(e, u) ==
    /\ IF Load(e) THEN TRUE ELSE Free(e) /\ Free(u)
    /\ Returned(merge(T, e, u), [op |-> "merge",
                                 entry |-> IF e.id \in RefKeys THEN u ELSE e])
    /\ ref' = IF e.id \notin RefKeys THEN ref \cup {e}
              ELSE IF u.id # e.id /\ u.id \in RefKeys THEN ref
              ELSE RefRemove(e.id) \cup {u}
    /\ UNCHANGED ops

\* the entry under the held Path
Held == EntryAt(heap[path.leafNode].entries, path.leafIndex)

\* the state as updateAt(path, e), having returned r, leaves it
UpdatedAt(r, e) ==
    /\ Leave(r.t, r.given, [op |-> "updateAt", entry |-> e, path |-> r.path,
                            wasUpdate |-> r.wasUpdate, thrown |-> r.thrown])
    /\ ref' = IF r.thrown \/ ~path.on THEN ref
              ELSE IF e.id # Held.id /\ e.id \in RefKeys THEN ref
              ELSE RefRemove(Held.id) \cup {e}

\* tree.updateAt(path, e) with the held Path
UpdateAt(e) ==
    /\ Free(e)
    /\ UpdatedAt(updateAt(T, path, e), e)
    /\ UNCHANGED ops

\* the state as deleteAt(path), having returned r, leaves it
DeletedAt(r) ==
    /\ Leave(r.t, r.path, [op |-> "deleteAt", path |-> r.path, result |-> r.result,
                           thrown |-> r.thrown])
    /\ ref' = IF r.thrown \/ ~path.on THEN ref ELSE RefRemove(Held.id)

\* tree.deleteAt(path) with the held Path
DeleteAt ==
    /\ version < MaxVersion
    /\ RefKeys \subseteq SmallKeys
    /\ DeletedAt(deleteAt(T, path))
    /\ UNCHANGED ops

\* a call that returns the Path x, which the caller then holds
Took(name, x) ==
    /\ Small
    /\ Leave(T, x, [op |-> name, path |-> x])
    /\ UNCHANGED <<ref, ops>>

\* path = tree.find(k)
Find(k) == k \in SmallKeys /\ Took("find", find(T, k))

\* path = tree.first()
First == Took("first", first(T))

\* path = tree.last()
Last == Took("last", last(T))

\* a call that takes the held Path and returns x, or throws: the held Path
\* stays as it is
Read(name, thrown, x) ==
    /\ Small
    /\ Leave(T, path, [op |-> name, path |-> path, thrown |-> thrown,
                       value |-> IF thrown THEN <<>> ELSE x])
    /\ UNCHANGED <<ref, ops>>

\* a call that takes the held Path and moves it (to x), or throws
Moved(name, x) ==
    /\ Small
    /\ Leave(T, IF x = StalePath THEN path ELSE x,
             [op |-> name, path |-> IF x = StalePath THEN path ELSE x,
              thrown |-> x = StalePath])
    /\ UNCHANGED <<ref, ops>>

\* a call that takes the held Path and returns a moved clone of it (x), or
\* throws: the returned Path is recorded, the held Path stays
Cloned(name, x) ==
    /\ Small
    /\ Leave(T, path, [op |-> name, path |-> IF x = StalePath THEN path ELSE x,
                       thrown |-> x = StalePath])
    /\ UNCHANGED <<ref, ops>>

\* the entries under the Paths an iteration yields
Yielded(t, paths) ==
    [i \in 1..Len(paths) |-> EntryAt(t.heap[paths[i].leafNode].entries, paths[i].leafIndex)]

\* a call that takes the held Path and iterates: the Paths x, or a throw
Iterated(name, x) == Read(name, x = <<StalePath>>, Yielded(T, x))

\* what at returned (x), or its throw
Got(name, x) == Read(name, x = StalePath, <<x>>)

\* tree.at(path)
At == Got("at", at(T, path))

\* tree.moveNext(path), tree.movePrior(path)
MoveNext == Moved("moveNext", moveNext(T, path))

MovePrior == Moved("movePrior", movePrior(T, path))

\* tree.next(path), tree.prior(path)
Next_ == Cloned("next", next(T, path))

Prior == Cloned("prior", prior(T, path))

\* [...tree.ascending(path)], [...tree.descending(path)]
Ascending == Iterated("ascending", ascending(T, path))

Descending == Iterated("descending", descending(T, path))

Next ==
    \/ \E k \in Keys : Insert(Entry(k, 0))
    \/ \E k \in Keys : Upsert(Entry(k, IF Load(Entry(k, 0)) THEN 0 ELSE 1))
    \/ \E k \in Keys : \E j \in {k, (k % MaxSmall) + 1} :
           Merge(Entry(k, 0), Entry(j, 1))
    \/ \E k \in SmallKeys : UpdateAt(Entry(k, 1))
    \/ DeleteAt
    \/ \E k \in SmallKeys : Find(k)
    \/ First
    \/ Last
    \/ At
    \/ MoveNext
    \/ MovePrior
    \/ Next_
    \/ Prior
    \/ Ascending
    \/ Descending

Spec == Init /\ [][Next]_vars

-----------------------------------------------------------------------------
(* The bulk world: the load of all even keys, then up to MaxOps mutations *)
(* anywhere in the loaded tree.                                            *)

\* the load is complete, or the mutations have begun
Loaded == IF ops = 0 THEN RefKeys = {k \in Keys : k % 2 = 0} ELSE TRUE

\* one step of the load
BulkLoad(e) == Load(e) /\ Insert(e)

\* tree.insert(e) on the loaded tree
BulkInsert(e) ==
    /\ ops < MaxOps
    /\ Loaded
    /\ Near(e.id)
    /\ Returned(insert(T, e), [op |-> "insert", entry |-> e])
    /\ ref' = RefInsert(e)
    /\ ops' = ops + 1

\* tree.deleteAt(tree.find(k)) on the loaded tree
BulkDelete(k) ==
    /\ ops < MaxOps
    /\ Loaded
    /\ Near(k)
    /\ Returned(deleteAt(T, find(T, k)), [op |-> "deleteAt", key |-> k])
    /\ ref' = RefRemove(k)
    /\ ops' = ops + 1

NextBulk ==
    \/ \E k \in Keys : BulkLoad(Entry(k, 0))
    \/ \E k \in Keys : BulkInsert(Entry(k, 1))
    \/ \E k \in Keys : BulkDelete(k)

SpecBulk == Init /\ [][NextBulk]_vars

\* tree.insert(e) with a key the reference does not hold
BulkInsertNew(e) == e.id \notin RefKeys /\ BulkInsert(e)

\* tree.deleteAt(tree.find(k)) with a key the reference holds
BulkDeleteStored(k) == k \in RefKeys /\ BulkDelete(k)

(* The bulk world where every insert is of a new key.                      *)
NextDistinct ==
    \/ \E k \in Keys : BulkLoad(Entry(k, 0))
    \/ \E k \in Keys : BulkInsertNew(Entry(k, 1))
    \/ \E k \in Keys : BulkDelete(k)

SpecDistinct == Init /\ [][NextDistinct]_vars

(* The round trip: the load, then deletes of the loaded keys in any order. *)
NextRoundTrip ==
    \/ \E k \in Keys : BulkLoad(Entry(k, 0))
    \/ \E k \in Keys : BulkDeleteStored(k)

SpecRoundTrip == Init /\ [][NextRoundTrip]_vars

-----------------------------------------------------------------------------
(* The iteration world: an iterator pulled one entry at a time, with calls *)
(* between the pulls.  An iterator is a generator suspended at its yield;  *)
(* the Path it yielded is the generator's own Path object, and it is the   *)
(* Path the caller holds.                                                  *)

\* a generator suspended at a yield: the method that made it, its direction,
\* range's endPath.on and endKey (ascending and descending have no end), and
\* the tree's version when it yielded
Suspended(kind, isAscending, endOn, endKey, seen) ==
    [state |-> "suspended", kind |-> kind, isAscending |-> isAscending,
     endOn |-> endOn, endKey |-> endKey, seen |-> seen]

\* a generator that has returned or thrown
Finished == [state |-> "done"]

\* range's startPath
rangeStartPath(t, keyRange) ==
    IF keyRange.first # NoBound THEN findFirst(t, keyRange)
    ELSE IF keyRange.isAscending THEN first(t) ELSE last(t)

\* range's endPath
rangeEndPath(t, keyRange) ==
    IF keyRange.last # NoBound THEN findLast(t, keyRange)
    ELSE IF keyRange.isAscending THEN last(t) ELSE first(t)

\* range's break, for the Path the inner generator yielded
rangeBreaks(t, p, endOn, endKey, isAscending) ==
    \/ ~p.on
    \/ ~endOn
    \/ compareKeys(keyFromEntry(EntryAt(t.heap[p.leafNode].entries, p.leafIndex)),
                   endKey) * (IF isAscending THEN 1 ELSE -1) > 0

\* the generator returns instead of yielding the Path: the inner loop's
\* while (path.on), and range's break
returns(t, it, p) ==
    IF it.kind = "range"
    THEN ~p.on \/ rangeBreaks(t, p, it.endOn, it.endKey, it.isAscending)
    ELSE ~p.on

\* the state as a pull leaves it, the generator having resumed with
\* moveNext or movePrior on its Path: x is the moved Path, or the throw
Pulled(x) ==
    IF x = StalePath
    THEN /\ Settle(canon(T, path, path),
                   [op |-> "pull", path |-> path, thrown |-> TRUE, done |-> FALSE,
                    since |-> iter.seen])
         /\ iter' = Finished
    ELSE /\ Settle(canon(T, x, x),
                   [op |-> "pull", path |-> x, thrown |-> FALSE,
                    done |-> returns(T, iter, x), since |-> iter.seen])
         /\ iter' = IF returns(T, iter, x) THEN Finished
                    ELSE [iter EXCEPT !.seen = version]

\* iterator.next() on the suspended generator
Pull ==
    /\ iter.state = "suspended"
    /\ Pulled(IF iter.isAscending THEN moveNext(T, path) ELSE movePrior(T, path))
    /\ UNCHANGED <<ref, ops>>

\* iterator = tree.ascending(path) or tree.descending(path) with the held
\* Path, and the first pull: the generator runs on a clone, which the caller
\* holds once it is yielded
Open(name, isAscending) ==
    /\ Small
    /\ IF ~isValid(T, path)
       THEN Leave(T, path, [op |-> "open", kind |-> name, path |-> path,
                            thrown |-> TRUE, done |-> FALSE])
       ELSE /\ Settle(canon(T, path, path),
                      [op |-> "open", kind |-> name, path |-> path,
                       thrown |-> FALSE, done |-> ~path.on])
            /\ iter' = IF path.on THEN Suspended(name, isAscending, TRUE, 0, version)
                       ELSE Finished
    /\ UNCHANGED <<ref, ops>>

OpenAscending == Open("ascending", TRUE)

OpenDescending == Open("descending", FALSE)

\* the state as the first pull from range(keyRange) leaves it: the generator
\* has found startPath and endPath and yields startPath, or returns
OpenedRange(keyRange, startPath, endPath, endKey) ==
    IF rangeBreaks(T, startPath, endPath.on, endKey, keyRange.isAscending)
    THEN /\ Settle(canon(T, path, path),
                   [op |-> "open", kind |-> "range", path |-> path,
                    thrown |-> FALSE, done |-> TRUE])
         /\ iter' = Finished
    ELSE /\ Settle(canon(T, startPath, startPath),
                   [op |-> "open", kind |-> "range", path |-> startPath,
                    thrown |-> FALSE, done |-> FALSE])
         /\ iter' = Suspended("range", keyRange.isAscending, endPath.on, endKey, version)

\* the end of a range: endPath, and the key of the entry under it
RangeEnded(keyRange, startPath, endPath) ==
    OpenedRange(keyRange, startPath, endPath,
                keyFromEntry(EntryAt(heap[endPath.leafNode].entries, endPath.leafIndex)))

\* the bounds the caller gives a range
SmallBounds == {NoBound} \cup {KeyBound(k, i) : k \in SmallKeys, i \in BOOLEAN}

\* iterator = tree.range(keyRange), and the first pull
OpenRange(keyRange) ==
    /\ Small
    /\ RangeEnded(keyRange, rangeStartPath(T, keyRange), rangeEndPath(T, keyRange))
    /\ UNCHANGED <<ref, ops>>

\* the caller takes a new Path when it is not in the middle of an iteration
Idle == iter.state # "suspended"

NextIter ==
    \/ \E k \in SmallKeys : Insert(Entry(k, 0))
    \/ \E k \in SmallKeys : Upsert(Entry(k, 1))
    \/ \E k \in SmallKeys : \E j \in {k, (k % MaxSmall) + 1} :
           Merge(Entry(k, 0), Entry(j, 1))
    \/ \E k \in SmallKeys : UpdateAt(Entry(k, 1))
    \/ DeleteAt
    \/ \E k \in SmallKeys : Idle /\ Find(k)
    \/ Idle /\ First
    \/ Idle /\ Last
    \/ OpenAscending
    \/ OpenDescending
    \/ \E f \in SmallBounds, l \in SmallBounds, asc \in BOOLEAN :
           OpenRange(KeyRange(f, l, asc))
    \/ Pull

SpecIter == Init /\ [][NextIter]_vars

-----------------------------------------------------------------------------
(* Merges whose getUpdated callback calls the tree.                        *)

\* the calls a getUpdated callback makes
Calls ==
    {[op |-> "none"]}
        \cup {[op |-> o, entry |-> Entry(k, 2)] : o \in {"insert", "upsert"}, k \in SmallKeys}
        \cup {[op |-> "deleteAt", key |-> k] : k \in SmallKeys}

\* what the reference map holds after the callback's call
RefCalled(call) ==
    CASE call.op = "insert" -> RefInsert(call.entry)
      [] call.op = "upsert" -> RefPut(call.entry)
      [] call.op = "deleteAt" -> RefRemove(call.key)
      [] OTHER -> ref

\* the state as merge(e, existing => { call; return u }), having returned or
\* thrown (r), leaves it; the record keeps the tree as it was before the
\* merge and as the callback left it
MergedCalling(r, e, call, u, after) ==
    /\ Returned(r, [op |-> "mergeCalling", entry |-> e, call |-> call,
                    called |-> e.id \in RefKeys,
                    before |-> [tree |-> Tree, version |-> version],
                    left |-> [tree |-> TreeOf(after.heap, after.root),
                              version |-> after.version]])
    /\ ref' = IF e.id \notin RefKeys THEN ref \cup {e}
              ELSE IF r.thrown THEN RefCalled(call)
              ELSE IF u.id # e.id /\ u.id \in RefKeys THEN ref
              ELSE RefRemove(e.id) \cup {u}

\* tree.merge(e, existing => { call; return u })
MergeCalling(e, call, u) ==
    /\ Free(e)
    /\ MergedCalling(mergeCalling(T, find(T, keyFromEntry(e)), called(T, call), e, u),
                     e, call, u, called(T, call))
    /\ UNCHANGED ops

NextMerge ==
    \/ \E k \in SmallKeys : Insert(Entry(k, 0))
    \/ \E k \in SmallKeys, call \in Calls : \E j \in {k, (k % MaxSmall) + 1} :
           MergeCalling(Entry(k, 0), call, Entry(j, 1))

SpecMerge == Init /\ [][NextMerge]_vars

-----------------------------------------------------------------------------
(* Writes in the bulk world: the load, then deletes of loaded keys, then   *)
(* one updateAt, upsert or merge anywhere in the tree as the last call.    *)

\* the state as updateAt(find(k), e), having returned r, leaves it
BulkUpdatedAt(r, k, e) ==
    /\ Leave(r.t, path, [op |-> "updateAt", key |-> k, entry |-> e, path |-> r.path,
                         wasUpdate |-> r.wasUpdate, thrown |-> r.thrown])
    /\ ref' = IF k \notin RefKeys \/ (e.id # k /\ e.id \in RefKeys) THEN ref
              ELSE RefRemove(k) \cup {e}

\* tree.updateAt(tree.find(k), e) on the loaded tree
BulkUpdateAt(k, e) ==
    /\ ops < MaxOps
    /\ Loaded
    /\ Near(k)
    /\ BulkUpdatedAt(updateAt(T, find(T, k), e), k, e)
    /\ ops' = MaxOps

\* tree.upsert(e) on the loaded tree
BulkUpsert(e) ==
    /\ ops < MaxOps
    /\ Loaded
    /\ Near(e.id)
    /\ Returned(upsert(T, e), [op |-> "upsert", entry |-> e])
    /\ ref' = RefPut(e)
    /\ ops' = MaxOps

\* tree.merge(e, existing => u) on the loaded tree
BulkMerge(e, u) ==
    /\ ops < MaxOps
    /\ Loaded
    /\ Near(e.id)
    /\ Returned(merge(T, e, u), [op |-> "merge", newEntry |-> e, updated |-> u])
    /\ ref' = IF e.id \notin RefKeys THEN ref \cup {e}
              ELSE IF u.id # e.id /\ u.id \in RefKeys THEN ref
              ELSE RefRemove(e.id) \cup {u}
    /\ ops' = MaxOps

\* the keys an entry is moved to: up to two away from its own
Moves(k) == ((k - 2)..(k + 2)) \cap Keys

NextWrite ==
    \/ \E k \in Keys : BulkLoad(Entry(k, 0))
    \/ \E k \in Keys : BulkDeleteStored(k)
    \/ \E k \in Keys : \E j \in Moves(k) : BulkUpdateAt(k, Entry(j, 1))
    \/ \E k \in Keys : BulkUpsert(Entry(k, 1))
    \/ \E k \in Keys : \E j \in Moves(k) : BulkMerge(Entry(k, 1), Entry(j, 2))

SpecWrite == Init /\ [][NextWrite]_vars

-----------------------------------------------------------------------------
(* Trees built with a comparator the caller gave: inserts and finds of the *)
(* keys 1..MaxProbe.                                                       *)

\* the largest key used with a given comparator
MaxProbe == 6

InitCompare == \E c \in {"default", "skewed", "skewedAt"} : Constructed(c)

\* tree.insert(e)
InsertBy(e) ==
    /\ Returned(insertBy(comparator, T, e), [op |-> "insert", entry |-> e])
    /\ ref' = IF ret'.thrown THEN ref ELSE RefInsert(e)
    /\ UNCHANGED ops

\* tree.find(k)
FindBy(k) ==
    /\ Returned(findBy(comparator, T, k), [op |-> "find", key |-> k])
    /\ UNCHANGED <<ref, ops>>

NextCompare ==
    \/ \E k \in 1..MaxProbe : InsertBy(Entry(k, 0))
    \/ \E k \in 1..MaxProbe : FindBy(k)

SpecCompare == InitCompare /\ [][NextCompare]_vars

-----------------------------------------------------------------------------
(* What a delete's record keeps of the tree as it was before the call.     *)

\* the branches whose children are leaves, left to right
RECURSIVE ParentList(_, _)
ParentList(h, node) ==
    IF h[node].leaf THEN <<>>
    ELSE IF h[h[node].nodes[1]].leaf THEN <<node>>
    ELSE LET RECURSIVE Cat(_)
             Cat(nodes) == IF nodes = <<>> THEN <<>>
                           ELSE ParentList(h, Head(nodes)) \o Cat(Tail(nodes))
         IN  Cat(h[node].nodes)

\* the leaves' entries, grouped by parent
Families(h, r) ==
    [i \in 1..Len(ParentList(h, r)) |->
        [j \in 1..Len(h[ParentList(h, r)[i]].nodes) |->
            h[h[ParentList(h, r)[i]].nodes[j]].entries]]

\* the leaves grouped by parent, and where the Path f is among them: its
\* parent's place i, the leaf's place j under that parent, and the index in
\* the leaf
Before(f) ==
    [families |-> Families(heap, root),
     i |-> IF f.branches = <<>> THEN 0
           ELSE CHOOSE i \in 1..Len(ParentList(heap, root)) :
                    ParentList(heap, root)[i] = f.branches[Len(f.branches)].node,
     j |-> IF f.branches = <<>> THEN 0 ELSE f.branches[Len(f.branches)].index + 1,
     index |-> f.leafIndex]

-----------------------------------------------------------------------------
(* The deep world: the load, then up to MaxDeep inserts of new keys and    *)
(* deletes of stored keys, all within the keys DeepFrom..DeepTo, the part  *)
(* of the loaded tree where a branch is its parent's first child.          *)

\* the number of mutations the caller makes in the deep world
MaxDeep == 5

\* the keys the caller uses in the deep world
DeepFrom == 10

DeepTo == 21

DeepKeys == DeepFrom..DeepTo

\* tree.insert(e) of a new key on the loaded tree
DeepInsert(e) ==
    /\ ops < MaxDeep
    /\ Loaded
    /\ e.id \notin RefKeys
    /\ Returned(insert(T, e), [op |-> "insert", entry |-> e])
    /\ ref' = RefInsert(e)
    /\ ops' = ops + 1

\* tree.deleteAt(tree.find(k)) of a stored key on the loaded tree
DeepDelete(k) ==
    /\ ops < MaxDeep
    /\ Loaded
    /\ k \in RefKeys
    /\ Returned(deleteAt(T, find(T, k)),
                [op |-> "deleteAt", key |-> k, before |-> Before(find(T, k))])
    /\ ref' = RefRemove(k)
    /\ ops' = ops + 1

NextDeep ==
    \/ \E k \in Keys : BulkLoad(Entry(k, 0))
    \/ \E k \in DeepKeys : DeepInsert(Entry(k, 1))
    \/ \E k \in DeepKeys : DeepDelete(k)

SpecDeep == Init /\ [][NextDeep]_vars

-----------------------------------------------------------------------------
(* The shape world: the deep world's calls, and inserts of new keys and    *)
(* deletes of stored keys in any order while the tree holds none but the   *)
(* keys 1..MaxTiny: the root grows from a leaf into a branch and collapses *)
(* back.                                                                   *)

\* the largest key of the small trees
MaxTiny == 6

\* the number of mutations the caller makes on a small tree
MaxTinyOps == 8

TinyKeys == 1..MaxTiny

\* the tree holds small keys only and the caller has mutations left
Tiny == ops = 0 /\ version < MaxTinyOps /\ RefKeys \subseteq TinyKeys

\* tree.insert(e) of a new key
TinyInsert(e) ==
    /\ Tiny
    /\ e.id \notin RefKeys
    /\ Returned(insert(T, e), [op |-> "insert", entry |-> e])
    /\ ref' = RefInsert(e)
    /\ UNCHANGED ops

\* tree.deleteAt(tree.find(k)) of a stored key
TinyDelete(k) ==
    /\ Tiny
    /\ k \in RefKeys
    /\ Returned(deleteAt(T, find(T, k)),
                [op |-> "deleteAt", key |-> k, before |-> Before(find(T, k))])
    /\ ref' = RefRemove(k)
    /\ UNCHANGED ops

NextShape ==
    \/ \E k \in Keys : BulkLoad(Entry(k, 0))
    \/ \E k \in DeepKeys : DeepInsert(Entry(k, 1))
    \/ \E k \in DeepKeys : DeepDelete(k)
    \/ \E k \in TinyKeys : TinyInsert(Entry(k, 0))
    \/ \E k \in TinyKeys : TinyDelete(k)

SpecShape == Init /\ [][NextShape]_vars

\* the entry the reference holds for key k
RefEntry(k) == CHOOSE e \in ref : e.id = k

\* C1: after any sequence of insert(e) and deleteAt(find(k)) calls the tree
\* agrees with the reference: find(k) is on exactly for the keys inserted and
\* not deleted since, and then at(find(k)) and get(k) return the entry stored
\* for k.
C1_AgreesWithReference ==
    \A k \in Keys :
        /\ find(T, k).on <=> k \in RefKeys
        /\ k \in RefKeys => /\ at(T, find(T, k)) = RefEntry(k)
                            /\ get(T, k) = RefEntry(k)

\* the entries stored in the tree, left to right, and their keys
Entries == Stored(heap, root)

StoredKeys == {Entries[i].id : i \in 1..Len(Entries)}

\* s is in strictly increasing (factor 1) or decreasing (factor -1) key order
Ordered(s, factor) ==
    \A i \in 1..Len(s) - 1 : compareKeys(s[i].id, s[i + 1].id) * factor < 0

\* the entries of set S as a sequence in ascending key order
RECURSIVE SortedSeq(_)
SortedSeq(S) ==
    IF S = {} THEN <<>>
    ELSE LET m == CHOOSE e \in S : \A x \in S : e.id <= x.id
         IN  <<m>> \o SortedSeq(S \ {m})

Reverse(s) == [i \in 1..Len(s) |-> s[Len(s) + 1 - i]]

\* C2: after any sequence of inserts of distinct keys (and deletes),
\* ascending(first()) yields every stored entry exactly once in strictly
\* increasing order, descending(last()) yields them in strictly decreasing
\* order, and the number of items yielded equals getCount().
C2_IterationInOrder ==
    LET up == Yielded(T, ascending(T, first(T)))
        down == Yielded(T, descending(T, last(T)))
    IN  /\ up = SortedSeq(ref)
        /\ down = Reverse(SortedSeq(ref))
        /\ Ordered(up, 1)
        /\ Ordered(down, -1)
        /\ Len(up) = getCount(T)
        /\ Len(down) = getCount(T)

\* the step was a successful mutation
Mutated ==
    \/ ret'.op = "insert" /\ ret'.path.on
    \/ ret'.op = "upsert"
    \/ ret'.op = "merge" /\ ret'.path.on
    \/ ret'.op = "updateAt" /\ ~ret'.thrown /\ path.on /\ ret'.path.on
    \/ ret'.op = "deleteAt" /\ ~ret'.thrown /\ ret'.result

\* C3: after any successful mutation, every Path obtained before it, other
\* than the Path the mutation returned, fails validation.
C3_MutationInvalidatesPaths ==
    [][Mutated => \/ ~isValid(T', path')
                  \/ ret'.op = "updateAt" /\ path' = ret'.path]_vars

\* a held Path obtained just before a successful insert, updateAt or deleteAt
\* is no longer valid
C3_Witness ==
    /\ ret.op \in {"insert", "merge", "upsert"}
    /\ ret.path.on
    /\ path.version = version - 1
    /\ path.on
    /\ ~isValid(T, path)

\* the calls that take a Path
PathOps ==
    {"at", "updateAt", "deleteAt", "moveNext", "movePrior", "next", "prior",
     "ascending", "descending"}

\* C4: at, updateAt, deleteAt, moveNext, movePrior, next, prior, ascending and
\* descending with a Path whose version differs from the tree's throw the
\* stale-path error first: entries, node structure and version are unchanged
\* and the Path is not moved.
C4_StalePathThrows ==
    [][(~isValid(T, path) /\ ret'.op \in PathOps)
        => /\ ret'.thrown
           /\ Tree' = Tree
           /\ version' = version
           /\ path' = path]_vars

\* deleteAt was called with a stale Path that was on an entry, and threw
C4_Witness ==
    /\ ret.op = "deleteAt"
    /\ ret.thrown
    /\ path.on
    /\ path.version < version
    /\ Entries # <<>>

C6_DuplicateInsertChangesNothing ==
    [][(ret'.op = "insert" /\ ret'.entry.id \in StoredKeys)
        => /\ ~ret'.path.on
           /\ Entries' = Entries
           /\ Tree' = Tree
           /\ version' = version]_vars

\* s without the entries of key k
Without(s, k) == SelectSeq(s, LAMBDA e : e.id # k)

\* C7: deleteAt with a valid Path on an entry returns true, removes exactly
\* that entry (every other entry stays stored and findable, the count drops
\* by one) and clears the Path's on flag; with a valid Path not on an entry
\* it returns false and changes neither contents nor version.
C7_DeleteRemovesExactlyOne ==
    [][(ret'.op = "deleteAt" /\ ~ret'.thrown)
        => IF find(T, ret'.key).on
           THEN /\ ret'.result
                /\ ~ret'.path.on
                /\ LET rest == Entries'
                   IN  /\ rest = Without(Entries, ret'.key)
                       /\ Len(rest) = Len(Entries) - 1
                       /\ \A i \in 1..Len(rest) :
                              /\ find(T', rest[i].id).on
                              /\ at(T', find(T', rest[i].id)) = rest[i]
           ELSE /\ ~ret'.result
                /\ Tree' = Tree
                /\ version' = version]_vars

\* C8: round trip to empty: after inserting N distinct keys (N at least
\* Capacity*Capacity + 1), every deleteAt(find(k)) of a key not yet deleted
\* succeeds, and when all are deleted getCount() is 0 and the root is a leaf
\* with no entries.
C8_RoundTripToEmpty ==
    [][(/\ ret'.op = "deleteAt"
        /\ ret'.key \in RefKeys
        /\ Cardinality(ref) + ops >= NodeCapacity * NodeCapacity + 1)
        => /\ ret'.result
           /\ ref' = {} => /\ getCount(T') = 0
                           /\ heap'[root'] = LeafNode(<<>>)]_vars

\* the stored entries with a key above / below k
Above(k) == {e \in ref : e.id > k}

Below(k) == {e \in ref : e.id < k}

\* C9: for any tree and any key k not in it, find(k) is off, next(find(k)) is
\* on the entry with the smallest key greater than k when there is one and
\* off otherwise, and prior(find(k)) is on the entry with the largest key
\* less than k when there is one and off otherwise.
C9_FindNearest ==
    \A k \in Keys \ RefKeys :
        Near(k) =>
            LET p == find(T, k)
                n == next(T, p)
                q == prior(T, p)
            IN  /\ ~p.on
                /\ n.on <=> Above(k) # {}
                /\ n.on => at(T, n) = CHOOSE e \in Above(k) : \A x \in Above(k) : e.id <= x.id
                /\ q.on <=> Below(k) # {}
                /\ q.on => at(T, q) = CHOOSE e \in Below(k) : \A x \in Below(k) : e.id >= x.id

\* the bounds a caller passes: none, or a key with either inclusivity
Bounds == {NoBound} \cup {KeyBound(k, i) : k \in {j \in Keys : Near(j)}, i \in BOOLEAN}

\* key k is within bound b taken as the low (side 1) or high (side -1) end
Within(k, b, side) ==
    \/ b = NoBound
    \/ (k - b.key) * side > 0
    \/ k = b.key /\ b.inclusive

\* the bounds are not inverted
NotInverted(r) ==
    \/ r.first = NoBound
    \/ r.last = NoBound
    \/ IF r.isAscending THEN r.first.key <= r.last.key ELSE r.first.key >= r.last.key

\* the entries a range is to yield, in its direction
InRange(r) ==
    LET side == IF r.isAscending THEN 1 ELSE -1
        S == {e \in ref : Within(e.id, r.first, side) /\ Within(e.id, r.last, -side)}
    IN  IF r.isAscending THEN SortedSeq(S) ELSE Reverse(SortedSeq(S))

\* C10: for any contents and any KeyRange whose bounds are not inverted,
\* range(keyRange) yields exactly the stored entries between the bounds, once
\* each, ascending or descending as asked; a bound's key is included only if
\* the bound is inclusive, a missing bound means the end of the tree, and the
\* result does not depend on the bound keys being stored.
C10_RangeYieldsBetweenBounds ==
    \A f \in Bounds, l \in Bounds, asc \in BOOLEAN :
        LET r == KeyRange(f, l, asc)
        IN  NotInverted(r) => Yielded(T, range(T, r)) = InRange(r)

\* the first bound lies after the last bound in the scan direction
Inverted(f, l, asc) == IF asc THEN f.key > l.key ELSE f.key < l.key

\* the bounds meet in one key and one of them excludes it
EmptyPoint(f, l) == f.key = l.key /\ (~f.inclusive \/ ~l.inclusive)

\* C11: range yields nothing for an inverted range and for equal bound keys
\* where either bound is exclusive; a range whose two inclusive bounds are the
\* same stored key yields exactly that one entry, in either direction; on an
\* empty tree range, ascending(first()) and descending(first()) yield nothing.
C11_DegenerateRanges ==
    /\ \A k \in RefKeys, asc \in BOOLEAN :
           Yielded(T, range(T, KeyRange(KeyBound(k, TRUE), KeyBound(k, TRUE), asc)))
               = <<RefEntry(k)>>
    /\ \A k \in Keys :
           Near(k) =>
               \A j \in (k - 2)..(k + 2) \cap Keys, fi \in BOOLEAN, li \in BOOLEAN,
                  asc \in BOOLEAN :
                   (\/ Inverted(KeyBound(k, fi), KeyBound(j, li), asc)
                    \/ EmptyPoint(KeyBound(k, fi), KeyBound(j, li)))
                       => range(T, KeyRange(KeyBound(k, fi), KeyBound(j, li), asc)) = <<>>
    /\ ref = {} =>
           /\ \A f \in Bounds, l \in Bounds, asc \in BOOLEAN :
                  range(T, KeyRange(f, l, asc)) = <<>>
           /\ ascending(T, first(T)) = <<>>
           /\ descending(T, first(T)) = <<>>


\* C12: for an iterator obtained from ascending, descending or range, when a
\* successful mutation of the tree (insert of a new key, upsert, merge,
\* updateAt, deleteAt: each advances the tree's version) happened since the
\* iterator last yielded, the next pull throws the stale-path error instead of
\* yielding an entry.
C12_PullAfterMutationThrows ==
    (ret.op = "pull" /\ version # ret.since) => ret.thrown


\* C13: when merge(entry, getUpdated) finds the key stored and the callback
\* performs a successful mutation of the tree (one that advances its version),
\* merge throws and makes no change of its own: entries, node structure and
\* version are exactly what the callback's mutation left.
C13_MutatingCallbackAborts ==
    (ret.op = "mergeCalling" /\ ret.called /\ ret.left.version # ret.before.version)
        => /\ ret.thrown
           /\ Tree = ret.left.tree
           /\ version = ret.left.version

\* a merge on a stored key whose callback changed the tree's entries has thrown
C13_Witness ==
    /\ ret.op = "mergeCalling"
    /\ ret.called
    /\ ret.left.tree # ret.before.tree
    /\ ret.thrown
    /\ Tree = ret.left.tree


\* s with the entry of key(e) replaced by e
Replaced(s, e) == [i \in 1..Len(s) |-> IF s[i].id = e.id THEN e ELSE s[i]]

\* C14: updateAt(path, newEntry) with a valid Path: (1) on an entry with
\* key(newEntry) equal to the old key, the entry is overwritten in place, the
\* count is unchanged and the result is [on-entry Path, true]; (2) on an entry
\* with a different key not in the tree, afterwards the old key is absent, the
\* new key maps to newEntry, the count is unchanged and the result is [Path on
\* newEntry, false]; (3) on an entry with a different key that is already in
\* the tree, the tree and its version are unchanged and the result is [off
\* Path, false]; (4) with a Path not on an entry, the tree is unchanged and
\* the result is [off Path, true].
C14_UpdateAtCases ==
    [][(ret'.op = "updateAt" /\ ~ret'.thrown)
        => IF ~find(T, ret'.key).on
           THEN /\ Tree' = Tree
                /\ version' = version
                /\ ~ret'.path.on
                /\ ret'.wasUpdate
           ELSE IF ret'.entry.id = ret'.key
           THEN /\ Entries' = Replaced(Entries, ret'.entry)
                /\ ret'.path.on
                /\ at(T', ret'.path) = ret'.entry
                /\ ret'.wasUpdate
           ELSE IF ret'.entry.id \notin StoredKeys
           THEN /\ ret'.key \notin StoredKeys'
                /\ get(T', ret'.entry.id) = ret'.entry
                /\ Len(Entries') = Len(Entries)
                /\ ret'.path.on
                /\ at(T', ret'.path) = ret'.entry
                /\ ~ret'.wasUpdate
           ELSE /\ Tree' = Tree
                /\ version' = version
                /\ ~ret'.path.on
                /\ ~ret'.wasUpdate]_vars


\* C15: upsert(entry): afterwards get(key(entry)) returns entry; the entry
\* count grows by one exactly when the key was absent and is unchanged when it
\* was present; the returned Path is on the entry when the key was present,
\* and when the key was absent it is a Path that is not on an entry, placed
\* just before the new entry, so that next(path) is on the new entry (also
\* when the insert split a leaf).
C15_UpsertPutsEntry ==
    [][ret'.op = "upsert"
        => /\ get(T', ret'.entry.id) = ret'.entry
           /\ IF ret'.entry.id \in StoredKeys
              THEN /\ Len(Entries') = Len(Entries)
                   /\ ret'.path.on
                   /\ at(T', ret'.path) = ret'.entry
              ELSE /\ Len(Entries') = Len(Entries) + 1
                   /\ ~ret'.path.on
                   /\ next(T', ret'.path).on
                   /\ at(T', next(T', ret'.path)) = ret'.entry]_vars


\* C16: merge(newEntry, getUpdated) when the callback does not mutate the
\* tree: if key(newEntry) is absent, newEntry is inserted and the result is
\* [Path on newEntry, false]; if it is present, the existing entry is replaced
\* by getUpdated(existing) exactly as updateAt would do it (same key: replaced
\* in place; new key not in the tree: the entry moves to the new key and the
\* returned Path is on it; new key already in the tree: nothing changes and
\* the returned Path is off).
C16_MergeInsertsOrUpdates ==
    [][ret'.op = "merge"
        => IF ret'.newEntry.id \notin StoredKeys
           THEN /\ Len(Entries') = Len(Entries) + 1
                /\ get(T', ret'.newEntry.id) = ret'.newEntry
                /\ ret'.path.on
                /\ at(T', ret'.path) = ret'.newEntry
                /\ ~ret'.wasUpdate
           ELSE IF ret'.updated.id = ret'.newEntry.id
           THEN /\ Entries' = Replaced(Entries, ret'.updated)
                /\ ret'.path.on
                /\ at(T', ret'.path) = ret'.updated
           ELSE IF ret'.updated.id \notin StoredKeys
           THEN /\ ret'.newEntry.id \notin StoredKeys'
                /\ get(T', ret'.updated.id) = ret'.updated
                /\ Len(Entries') = Len(Entries)
                /\ ret'.path.on
                /\ at(T', ret'.path) = ret'.updated
           ELSE /\ Tree' = Tree
                /\ ~ret'.path.on]_vars


\* the comparator answers the same non-zero value for (a, b) and for (b, a)
Inconsistent(a, b) ==
    compareBy(comparator, a, b) # 0
        /\ compareBy(comparator, a, b) = compareBy(comparator, b, a)

\* C17: whenever an operation compares two keys a and b with compare(a, b)
\* non-zero and compare(b, a) the same value, the operation fails with the
\* inconsistent-comparator error; so with the comparator that answers -1 for
\* a < b and for a > b, an insert of a second key throws and the tree never
\* holds two entries.
C17_InconsistentCompareThrows ==
    /\ ret.op \in {"insert", "find"}
           => ((\E p \in ret.compared : Inconsistent(p[1], p[2])) => ret.thrown)
    /\ comparator = "skewed" => Len(Entries) <= 1
    /\ (comparator = "skewed" /\ ret.op = "insert" /\ Entries # <<>>
            /\ ret.entry.id \notin StoredKeys) => ret.thrown

\* an insert into a tree of two levels has thrown at a comparison with the
\* inconsistently ordered key
C17_Witness ==
    /\ comparator = "skewedAt"
    /\ ret.op = "insert"
    /\ ret.thrown
    /\ ~heap[root].leaf
    /\ \E p \in ret.compared : SkewKey \in {p[1], p[2]} /\ Inconsistent(p[1], p[2])


\* Paths p and q are in the same place with the same flag and stamp
SamePath(p, q) ==
    /\ p.leafIndex = q.leafIndex
    /\ p.on = q.on
    /\ p.version = q.version
    /\ Len(p.branches) = Len(q.branches)
    /\ \A i \in 1..Len(p.branches) : p.branches[i].index = q.branches[i].index

\* C18: no public method mutates a Path passed to it, except moveNext and
\* movePrior: after at, updateAt, deleteAt, next, prior, ascending or
\* descending returns, the given Path's branches, leafIndex, on flag and
\* version are what they were before the call.
C18_GivenPathUnchanged ==
    [][ret'.op \in {"at", "updateAt", "deleteAt", "next", "prior", "ascending",
                    "descending"}
        => SamePath(path', path)]_vars


\* C19: ascending(path) with a Path on an entry yields that entry and then
\* every following entry in increasing order up to the last; descending(path)
\* with a Path on an entry yields that entry and then every preceding entry in
\* decreasing order down to the first; given a Path that is not on an entry
\* (find of a missing key, next(last()), prior(first())) both yield nothing.
C19_IterationFromPath ==
    LET all == SortedSeq(ref)
    IN  /\ \A i \in 1..Len(all) :
               find(T, all[i].id).on
                   => /\ Yielded(T, ascending(T, find(T, all[i].id)))
                          = SubSeq(all, i, Len(all))
                      /\ Yielded(T, descending(T, find(T, all[i].id)))
                          = Reverse(SubSeq(all, 1, i))
        /\ \A k \in Keys :
               (Near(k) /\ k \notin RefKeys /\ ~find(T, k).on)
                   => /\ ascending(T, find(T, k)) = <<>>
                      /\ descending(T, find(T, k)) = <<>>
        /\ ascending(T, next(T, last(T))) = <<>>
        /\ descending(T, next(T, last(T))) = <<>>
        /\ ascending(T, prior(T, first(T))) = <<>>
        /\ descending(T, prior(T, first(T))) = <<>>


RECURSIVE BranchesUnder(_, _)
BranchesUnder(h, node) ==
    IF h[node].leaf THEN {}
    ELSE {node} \cup UNION {BranchesUnder(h, h[node].nodes[i]) : i \in 1..Len(h[node].nodes)}

\* the keys stored under node
KeysUnder(h, node) == {Stored(h, node)[i].id : i \in 1..Len(Stored(h, node))}

\* in branch b, partitions[i] is the least key under nodes[i + 1] and above
\* every key under nodes[i] (positions counted from 0)
PartitionsExact(h, b) ==
    \A i \in 0..Len(h[b].partitions) - 1 :
        LET p == KeyAt(h[b].partitions, i)
        IN  /\ p \in KeysUnder(h, NodeAt(h[b].nodes, i + 1))
            /\ \A k \in KeysUnder(h, NodeAt(h[b].nodes, i + 1)) : p <= k
            /\ \A k \in KeysUnder(h, NodeAt(h[b].nodes, i)) : k < p

\* C21: after every public operation, in every branch node, partitions[i] is
\* the minimum key reachable under nodes[i+1], and every key under nodes[i]
\* is less than partitions[i]; also after branch-level borrows and merges in
\* trees with three or more branch levels.
C21_PartitionInvariant == \A b \in BranchesUnder(heap, root) : PartitionsExact(heap, b)


\* the leaf nodes of the tree under node
RECURSIVE LeavesUnder(_, _)
LeavesUnder(h, node) ==
    IF h[node].leaf THEN {node}
    ELSE UNION {LeavesUnder(h, h[node].nodes[i]) : i \in 1..Len(h[node].nodes)}

\* C22: after every public operation every leaf holds at most Capacity
\* entries and every branch at most Capacity children, every non-root leaf
\* holds at least Capacity/2 entries, every non-root branch at least
\* Capacity/2 children and a root branch at least 2 children; the entries of
\* each leaf are in ascending key order without duplicate keys.
C22_FillInvariant ==
    /\ \A l \in LeavesUnder(heap, root) :
           /\ Len(heap[l].entries) <= NodeCapacity
           /\ l # root => Len(heap[l].entries) >= HalfCapacity
           /\ Ordered(heap[l].entries, 1)
    /\ \A b \in BranchesUnder(heap, root) :
           /\ Len(heap[b].nodes) <= NodeCapacity
           /\ b # root => Len(heap[b].nodes) >= HalfCapacity
           /\ b = root => Len(heap[b].nodes) >= 2


\* Path p is a chain from root r down to its leaf: the first frame's node is
\* the root, and each frame's node holds, at the frame's index, the next
\* frame's node (the leaf, for the last frame)
Chained(h, r, p) ==
    /\ (IF p.branches = <<>> THEN p.leafNode ELSE p.branches[1].node) = r
    /\ \A i \in 1..Len(p.branches) :
           /\ ~h[p.branches[i].node].leaf
           /\ NodeAt(h[p.branches[i].node].nodes, p.branches[i].index)
                  = (IF i < Len(p.branches) THEN p.branches[i + 1].node ELSE p.leafNode)

\* C23: the Path a successful insert returns is a consistent root-to-leaf
\* chain: branches[0].node is the root and branches[i].node.nodes[
\* branches[i].index] is branches[i+1].node, or the leaf for the last frame;
\* also when the insert split a full branch and the entry fell in the new
\* right half.
C23_InsertPathChained ==
    (ret.op = "insert" /\ ret.path.on) => Chained(heap, root, ret.path)


\* the entry the Path x is on, undefined when it is off an entry; the throw
\* when x is one
Landing(t, x) == IF x \in {StalePath, TypeError} THEN x ELSE atUnchecked(t, x)

\* the reference's entry with the least key above k / the greatest key below
\* k, undefined when there is none
Successor(k) ==
    IF Above(k) = {} THEN undefined
    ELSE CHOOSE e \in Above(k) : \A x \in Above(k) : e.id <= x.id

Predecessor(k) ==
    IF Below(k) = {} THEN undefined
    ELSE CHOOSE e \in Below(k) : \A x \in Below(k) : e.id >= x.id

\* deleteAt, having returned d, removed exactly the entry of key k from the
\* entries s: every other entry is stored and found, and the partitions are
\* the least keys of their subtrees
RemovedOnly(d, s, k) ==
    /\ ~d.thrown
    /\ d.result
    /\ Stored(d.t.heap, d.t.root) = Without(s, k)
    /\ \A i \in 1..Len(s) : s[i].id # k => at(d.t, find(d.t, s[i].id)) = s[i]
    /\ \A b \in BranchesUnder(d.t.heap, d.t.root) : PartitionsExact(d.t.heap, b)

\* C24: the Path p a successful insert(e) returns behaves as find(key(e))
\* taken right after the insert: next(p) and prior(p) are on the in-order
\* successor and predecessor of e, and deleteAt(p) removes exactly e and
\* leaves every other stored key findable and the tree's invariants intact;
\* also when the insert split a leaf, a branch or the root.
C24_InsertPathAsFound ==
    (ret.op = "insert" /\ ret.path.on)
        => /\ Landing(T, next(T, ret.path)) = Successor(ret.entry.id)
           /\ Landing(T, prior(T, ret.path)) = Predecessor(ret.entry.id)
           /\ RemovedOnly(deleteAt(T, ret.path), Entries, ret.entry.id)


-----------------------------------------------------------------------------
(* The hand-built world of the regression test for bug #1: the test sets   *)
(* the root to a branch over three leaves, the middle one holding a single *)
(* entry, and then deletes one entry.                                      *)

\* the largest key of a hand-built tree
MaxHand == 9

HandKeys == 1..MaxHand

\* the entries of the keys S in ascending order, with value 0
LeafOf(S) == SortedSeq({Entry(k, 0) : k \in S})

\* _root = new BranchNode([middle key, first right key], [left, middle,
\* right]) on a new tree, the left and right leaves half full
HandBuilt(left, k, right) ==
    /\ Cardinality(left) = HalfCapacity
    /\ Cardinality(right) = HalfCapacity
    /\ \A x \in left : x < k
    /\ \A x \in right : k < x
    /\ heap = <<BranchNode(<<k, LeafOf(right)[1].id>>, <<2, 3, 4>>),
                LeafNode(LeafOf(left)), LeafNode(LeafOf({k})), LeafNode(LeafOf(right))>>
    /\ root = 1
    /\ version = 0
    /\ path = Path(<<PathBranch(1, 0)>>, 2, 0, TRUE, 0)
    /\ ret = [op |-> "new", path |-> Path(<<PathBranch(1, 0)>>, 2, 0, TRUE, 0)]
    /\ ref = {Entry(x, 0) : x \in left \cup {k} \cup right}
    /\ ops = 0
    /\ iter = NoIterator
    /\ comparator = "default"

InitHand ==
    \E left \in SUBSET HandKeys, k \in HandKeys, right \in SUBSET HandKeys :
        HandBuilt(left, k, right)

\* tree.deleteAt(tree.find(k)) on the hand-built tree
HandDelete(k) ==
    /\ ops = 0
    /\ Returned(deleteAt(T, find(T, k)), [op |-> "deleteAt", key |-> k])
    /\ ref' = RefRemove(k)
    /\ ops' = 1

NextHand == \E k \in HandKeys : HandDelete(k)

SpecHand == InitHand /\ [][NextHand]_vars

\* every partition of the tree is a key stored under its branch (so it is
\* not undefined)
PartitionsStored(h, r) ==
    \A b \in BranchesUnder(h, r) :
        \A i \in 1..Len(h[b].partitions) : h[b].partitions[i] \in KeysUnder(h, b)

\* the key of the hand-built tree's middle leaf
MiddleKey == heap[NodeAt(heap[root].nodes, 1)].entries[1].id

\* C25: regression (bug #1): from a root branch over three leaves holding
\* Capacity/2 entries, exactly 1 entry and Capacity/2 entries, with the first
\* keys of the second and third leaves as partitions, deleteAt(find(k)) of
\* the middle leaf's only key k returns true, and afterwards every partition
\* is a defined key present in the reachable subtree, find(k) is off, find of
\* every remaining key is on and getCount() is Capacity.
C25_EmptiedLeafRegression ==
    [][(ops = 0 /\ ret'.op = "deleteAt" /\ ret'.key = MiddleKey)
        => /\ ret'.result
           /\ PartitionsStored(heap', root')
           /\ ~find(T', ret'.key).on
           /\ \A k \in RefKeys \ {ret'.key} : find(T', k).on
           /\ getCount(T') = NodeCapacity]_vars


\* the branch nodes of the tree under node, parents before children and
\* left to right
RECURSIVE BranchList(_, _)
BranchList(h, node) ==
    IF h[node].leaf THEN <<>>
    ELSE LET RECURSIVE Cat(_)
             Cat(nodes) == IF nodes = <<>> THEN <<>>
                           ELSE BranchList(h, Head(nodes)) \o Cat(Tail(nodes))
         IN  <<node>> \o Cat(h[node].nodes)

\* the number of children of each branch, and each branch's partitions, in
\* the order of BranchList
Sizes(h, r) == [i \in 1..Len(BranchList(h, r)) |-> Len(h[BranchList(h, r)[i]].nodes)]

Partitions(h, r) == [i \in 1..Len(BranchList(h, r)) |-> h[BranchList(h, r)[i]].partitions]

\* the position of branch b in BranchList
Position(h, r, b) == CHOOSE i \in 1..Len(BranchList(h, r)) : BranchList(h, r)[i] = b

\* f is on an entry of a leaf whose parent is not the root and has children
\* to spare: more than Capacity/2
SpareParent(f) ==
    /\ f.on
    /\ Len(f.branches) >= 2
    /\ Len(heap[f.branches[Len(f.branches)].node].nodes) - 1 >= HalfCapacity

\* the step merged two leaves under the parent at position i, and no branch
\* other than that parent changed: the parent lost one child, every other
\* branch kept its children, and kept its partitions when the delete did not
\* touch a first entry or a first child
OnlyParentChanged(f, i) ==
    /\ Sizes(heap', root') = [Sizes(heap, root) EXCEPT ![i] = @ - 1]
    /\ (f.leafIndex > 0 /\ f.branches[Len(f.branches)].index > 0)
         => \A j \in 1..Len(Sizes(heap, root)) \ {i} :
                Partitions(heap', root')[j] = Partitions(heap, root)[j]

\* C26: when a merge one level below removes a child from a non-root branch
\* and the branch still has at least Capacity/2 children, rebalancing stops
\* there: the branch neither borrows a child from a sibling nor merges with
\* one, and its siblings' children and its parent's partitions and children
\* are unchanged.
C26_BranchRebalanceStops ==
    [][(/\ ret'.op = "deleteAt"
        /\ SpareParent(find(T, ret'.key))
        /\ Cardinality(LeavesUnder(heap', root')) = Cardinality(LeavesUnder(heap, root)) - 1)
        => OnlyParentChanged(find(T, ret'.key),
                             Position(heap, root,
                                      find(T, ret'.key).branches[Len(find(T, ret'.key).branches)].node))]_vars


\* the depths at which the leaves under node lie, node being at depth d
RECURSIVE LeafDepths(_, _, _)
LeafDepths(h, node, d) ==
    IF h[node].leaf THEN {d}
    ELSE UNION {LeafDepths(h, h[node].nodes[i], d + 1) : i \in 1..Len(h[node].nodes)}

\* the number of branch levels above the leftmost leaf
RECURSIVE Height(_, _)
Height(h, node) == IF h[node].leaf THEN 0 ELSE 1 + Height(h, h[node].nodes[1])

\* all leaves are at the same depth and the root is a leaf or a branch with
\* at least two children
Shaped(h, r) ==
    /\ Cardinality(LeafDepths(h, r, 0)) = 1
    /\ h[r].leaf \/ Len(h[r].nodes) >= 2

\* C27: after every public operation all leaves are at the same depth and the
\* root is a leaf or a branch with at least two children; a tree that grows a
\* level gets a new root branch with exactly two children, the old root and
\* the node split off it; a tree that shrinks loses one level, the root's
\* single remaining child becoming the root.
C27_TreeShape ==
    [][/\ Shaped(heap', root')
       /\ Height(heap', root') > Height(heap, root)
            => /\ Height(heap', root') = Height(heap, root) + 1
               /\ Len(heap'[root'].nodes) = 2
               /\ Len(Entries') = Len(Entries) + 1
       /\ Height(heap', root') < Height(heap, root)
            => /\ Height(heap', root') = Height(heap, root) - 1
               /\ Len(Entries') = Len(Entries) - 1]_vars

\* a delete made the root branch collapse into a leaf: the Path the delete
\* was given still has the frame of the former root
C27_Witness ==
    /\ ret.op = "deleteAt"
    /\ ret.result
    /\ ret.path.branches # <<>>
    /\ heap[root].leaf
    /\ Entries # <<>>


RECURSIVE Flat(_)
Flat(families) == IF families = <<>> THEN <<>> ELSE Head(families) \o Flat(Tail(families))

\* the leaves under node, left to right, as the sequences of their entries
RECURSIVE Leaves(_, _)
Leaves(h, node) ==
    IF h[node].leaf THEN <<h[node].entries>>
    ELSE LET RECURSIVE Cat(_)
             Cat(nodes) == IF nodes = <<>> THEN <<>>
                           ELSE Leaves(h, Head(nodes)) \o Cat(Tail(nodes))
         IN  Cat(h[node].nodes)

\* the partitions of the tree under node in order: the m-th is the ancestor
\* partition between the m-th leaf and the next
RECURSIVE Separators(_, _)
Separators(h, node) ==
    IF h[node].leaf THEN <<>>
    ELSE LET RECURSIVE Cat(_)
             Cat(i) == IF i > Len(h[node].nodes) THEN <<>>
                       ELSE (IF i = 1 THEN <<>> ELSE <<h[node].partitions[i - 1]>>)
                            \o Separators(h, h[node].nodes[i]) \o Cat(i + 1)
         IN  Cat(1)

\* what the leaf rebalancing is to do with the leaf rest (the leaf after the
\* delete), given its siblings left and right under the same parent (<<>>
\* when there is none): the first case that applies
RebalanceCase(left, rest, right) ==
    IF Len(rest) >= HalfCapacity THEN "none"
    ELSE IF Len(right) > HalfCapacity THEN "borrow right"
    ELSE IF Len(left) > HalfCapacity THEN "borrow left"
    ELSE IF right # <<>> /\ Len(right) + Len(rest) <= NodeCapacity THEN "merge right"
    ELSE IF left # <<>> /\ Len(left) + Len(rest) <= NodeCapacity THEN "merge left"
    ELSE "none"

\* the leaves of one parent after the rebalancing case c of its leaf j,
\* which the delete left as rest
FamilyAfter(family, j, rest, c) ==
    LET left == IF j > 1 THEN family[j - 1] ELSE <<>>
        right == IF j < Len(family) THEN family[j + 1] ELSE <<>>
    IN  CASE c = "none" -> [family EXCEPT ![j] = rest]
          [] c = "borrow right" ->
                 [family EXCEPT ![j] = Append(rest, Head(right)), ![j + 1] = Tail(right)]
          [] c = "borrow left" ->
                 [family EXCEPT ![j] = <<left[Len(left)]>> \o rest,
                                ![j - 1] = Take(left, Len(left) - 1)]
          [] c = "merge right" ->
                 RemoveAt([family EXCEPT ![j] = rest \o right], j)
          [] c = "merge left" ->
                 RemoveAt([family EXCEPT ![j - 1] = left \o rest], j - 1)

\* the rebalancing case of the delete recorded in b
CaseOf(b) ==
    LET family == b.families[b.i]
    IN  RebalanceCase(IF b.j > 1 THEN family[b.j - 1] ELSE <<>>,
                      RemoveAt(family[b.j], b.index),
                      IF b.j < Len(family) THEN family[b.j + 1] ELSE <<>>)

\* all leaves after the delete recorded in b, as required
LeavesAfter(b) ==
    Flat([b.families EXCEPT ![b.i] =
              FamilyAfter(@, b.j, RemoveAt(@[b.j], b.index), CaseOf(b))])

\* the place among all leaves of the left leaf of the pair a borrow of case
\* c works on
BorrowPlace(b, c) ==
    Len(Flat(Take(b.families, b.i - 1))) + (IF c = "borrow right" THEN b.j ELSE b.j - 1)

\* after a borrow of case c the ancestor partition between the two leaves is
\* the first key of the right one
BoundarySet(b, c) ==
    c \in {"borrow right", "borrow left"}
        => Separators(heap, root)[BorrowPlace(b, c)]
               = Leaves(heap, root)[BorrowPlace(b, c) + 1][1].id

\* C28: when deleteAt leaves a non-root leaf with fewer than Capacity/2
\* entries, exactly one thing is done, the first that applies: borrow one
\* entry from the right sibling if it has more than Capacity/2, else borrow
\* one from the left sibling if it has more than Capacity/2, else merge the
\* right sibling into the leaf if both fit in one leaf, else merge the leaf
\* into the left sibling.  A borrow sets the ancestor partition between the
\* two leaves to the new boundary key, a merge takes one child from the
\* parent.  Only siblings under the same parent are used.
C28_LeafRebalanceOrder ==
    (ret.op = "deleteAt" /\ ret.result /\ ret.before.i > 0)
        => /\ Leaves(heap, root) = LeavesAfter(ret.before)
           /\ BoundarySet(ret.before, CaseOf(ret.before))


\* a delete left a leaf underfull that has a right sibling with nothing to
\* spare, and the leaf borrowed from its left sibling
C28_Witness ==
    /\ ret.op = "deleteAt"
    /\ ret.result
    /\ ret.before.i > 0
    /\ ret.before.j < Len(ret.before.families[ret.before.i])
    /\ CaseOf(ret.before) = "borrow left"
    /\ Leaves(heap, root) = LeavesAfter(ret.before)


-----------------------------------------------------------------------------
(* The run world: distinct keys inserted one by one into a new tree, in    *)
(* any order, until the root leaf has split once.  An entry's value is its *)
(* place in the run, as the tests' addRange inserts one key per step.      *)

\* the keys a run draws from
MaxRun == 6

RunKeys == 1..MaxRun

\* tree.insert(e), e the next entry of the run
RunInsert(e) ==
    /\ ops = 0
    /\ Cardinality(ref) <= NodeCapacity
    /\ e.id \in RunKeys \ RefKeys
    /\ e.value = Cardinality(ref)
    /\ Returned(insert(T, e), [op |-> "insert", entry |-> e,
                               before |-> find(T, e.id)])
    /\ ref' = RefInsert(e)
    /\ UNCHANGED ops

NextRun == \E k \in RunKeys : RunInsert(Entry(k, Cardinality(ref)))

SpecRun == Init /\ [][NextRun]_vars

\* the run went up, or down, at every step
RunAscending == \A a, b \in ref : a.value < b.value => a.id < b.id
RunDescending == \A a, b \in ref : a.value < b.value => a.id > b.id

\* the range over the stored keys, both bounds inclusive
RunRange(isAscending) ==
    LET lo == SortedSeq(ref)[1].id
        hi == SortedSeq(ref)[Len(SortedSeq(ref))].id
    IN  IF isAscending THEN KeyRange(KeyBound(lo, TRUE), KeyBound(hi, TRUE), TRUE)
        ELSE KeyRange(KeyBound(hi, TRUE), KeyBound(lo, TRUE), FALSE)

\* C29: after NodeCapacity + 1 keys inserted in strictly ascending or in
\* strictly descending order into an empty tree, the root is a branch with
\* exactly two children, both leaves holding at least half a node's capacity,
\* and a range over the keys yields all of them in order.
C29_GrowToTwoLeaves ==
    (Cardinality(ref) = NodeCapacity + 1 /\ (RunAscending \/ RunDescending))
        => /\ ~heap[root].leaf
           /\ Len(heap[root].nodes) = 2
           /\ \A i \in 1..2 : /\ heap[heap[root].nodes[i]].leaf
                              /\ Len(heap[heap[root].nodes[i]].entries) >= NodeCapacity \div 2
           /\ Yielded(T, range(T, RunRange(TRUE))) = SortedSeq(ref)
           /\ Yielded(T, range(T, RunRange(FALSE))) = Reverse(SortedSeq(ref))

\* a descending run of NodeCapacity + 1 keys has ended
C29_Witness ==
    /\ Cardinality(ref) = NodeCapacity + 1
    /\ RunDescending
    /\ ret.op = "insert"
    /\ ret.entry.value = NodeCapacity


\* the leaves under node, left to right, as node objects
RECURSIVE LeafIds(_, _)
LeafIds(h, node) ==
    IF h[node].leaf THEN <<node>>
    ELSE LET RECURSIVE Cat(_)
             Cat(nodes) == IF nodes = <<>> THEN <<>>
                           ELSE LeafIds(h, Head(nodes)) \o Cat(Tail(nodes))
         IN  Cat(h[node].nodes)

\* the place of leaf among the leaves of the tree
PlaceOf(h, r, leaf) == CHOOSE m \in 1..Len(LeafIds(h, r)) : LeafIds(h, r)[m] = leaf

\* the two halves of a full leaf's entries split at the zero-based index mid,
\* with entry put at index into the half that index falls in
HalvesAfter(entries, index, entry, mid) ==
    IF index < mid
    THEN <<InsertAt(Take(entries, mid), index, entry), Drop(entries, mid)>>
    ELSE <<Take(entries, mid), InsertAt(Drop(entries, mid), index - mid, entry)>>

\* the insert of entry at the Path f, which is on a full leaf, left two
\* leaves in the leaf's place: the halves from mid, and between them the key
\* of the right half's first entry
SplitAs(f, entry, mid) ==
    LET m == PlaceOf(heap, root, f.leafNode)
        halves == HalvesAfter(heap[f.leafNode].entries, f.leafIndex, entry, mid)
    IN  /\ Leaves(heap', root') = Take(Leaves(heap, root), m - 1) \o halves
                                    \o Drop(Leaves(heap, root), m)
        /\ Separators(heap', root')[m] = halves[2][1].id

\* an insert of a new key is about to find its leaf full
FullLeafInsert ==
    /\ ret'.op = "insert"
    /\ ret'.path.on
    /\ Len(heap[find(T, ret'.entry.id).leafNode].entries) = NodeCapacity

\* C30 as stated: an insert that finds its leaf full with n entries moves the
\* entries at indices ceil((n + 1) / 2) and above into a new right sibling,
\* puts the new entry into the half its index falls in, and promotes the key
\* of the sibling's first entry.
C30_SplitAboveMiddle ==
    [][FullLeafInsert
         => SplitAs(find(T, ret'.entry.id), ret'.entry, (NodeCapacity + 2) \div 2)]_vars

\* C30: an insert that finds its leaf full with n entries moves the entries
\* at the zero-based indices floor((n + 1) / 2) and above into a new right
\* sibling, puts the new entry into the half its index falls in, and
\* promotes the key of the sibling's first entry after that insertion.
C30_LeafSplitPolicy ==
    [][FullLeafInsert
         => SplitAs(find(T, ret'.entry.id), ret'.entry, (NodeCapacity + 1) \div 2)]_vars

\* the root leaf was full and has split, and the new entry is the first of
\* the new right sibling
C30_Witness ==
    /\ ret.op = "insert"
    /\ ret.path.on
    /\ ret.entry.value = NodeCapacity
    /\ ~heap[root].leaf
    /\ ret.before.leafIndex = (NodeCapacity + 1) \div 2
    /\ heap[root].partitions = <<ret.entry.id>>


\* the call recorded in r reported success: a Path that is on from insert,
\* updateAt and merge, any return of upsert, true from deleteAt
Succeeded(r) ==
    CASE r.op \in {"insert", "merge"} -> r.path.on
      [] r.op = "updateAt" -> ~r.thrown /\ r.path.on
      [] r.op = "upsert" -> TRUE
      [] r.op = "deleteAt" -> ~r.thrown /\ r.result
      [] OTHER -> FALSE

\* the call recorded in r was an insert of a key the tree holds
DuplicateInsert(r) ==
    r.op = "insert" /\ \E i \in 1..Len(Stored(heap, root)) : Stored(heap, root)[i].id = r.entry.id

\* C31: the tree's version never decreases; a mutation that succeeds
\* advances it; a read, and a mutation that reports failure (an insert of a
\* stored key among them), leave the version and the tree's contents as they
\* were, so a valid Path stays valid.
C31_VersionCounter ==
    [][/\ version' >= version
       /\ Succeeded(ret') => version' > version
       /\ (~Succeeded(ret') \/ DuplicateInsert(ret'))
              => /\ version' = version
                 /\ Stored(heap', root') = Stored(heap, root)
                 /\ isValid(T, path) => isValid(T', path')]_vars


-----------------------------------------------------------------------------
(* Writes under a comparator the caller gave: inserts, upserts, merges,    *)
(* finds and updates of the keys 1..MaxProbe, while the version is below   *)
(* MaxAbort.                                                               *)

\* the writes of this world stop when the version reaches MaxAbort
MaxAbort == 4

InitAbort == \E c \in {"default", "skewedAt", "skewedPair"} : Constructed(c)

\* tree.insert(e)
InsertUnder(e) ==
    /\ version < MaxAbort
    /\ InsertBy(e)

\* tree.upsert(e)
UpsertBy(e) ==
    /\ version < MaxAbort
    /\ Returned(upsertBy(comparator, T, e), [op |-> "upsert", entry |-> e])
    /\ ref' = IF ret'.thrown THEN ref ELSE RefPut(e)
    /\ UNCHANGED ops

\* tree.merge(e, existing => u)
MergeBy(e, u) ==
    /\ version < MaxAbort
    /\ Returned(mergeBy(comparator, T, e, u), [op |-> "merge", newEntry |-> e, updated |-> u])
    /\ ref' = IF ret'.thrown THEN ref
              ELSE IF e.id \notin RefKeys THEN ref \cup {e}
              ELSE IF u.id # e.id /\ u.id \in RefKeys THEN ref
              ELSE RefRemove(e.id) \cup {u}
    /\ UNCHANGED ops

\* tree.updateAt(path, e) with the Path the last find returned
UpdateAtBy(e) ==
    /\ version < MaxAbort
    /\ ret.op = "find"
    /\ ~ret.thrown
    /\ Returned(updateAtBy(comparator, T, ret.path, e),
                [op |-> "updateAt", key |-> ret.key, entry |-> e])
    /\ ref' = IF ret'.thrown \/ ret.key \notin RefKeys
                 \/ (e.id # ret.key /\ e.id \in RefKeys) THEN ref
              ELSE RefRemove(ret.key) \cup {e}
    /\ UNCHANGED ops

NextAbort ==
    \/ \E k \in 1..MaxProbe : InsertUnder(Entry(k, 0))
    \/ \E k \in 1..MaxProbe : FindBy(k)
    \/ \E k \in 1..MaxProbe : UpsertBy(Entry(k, 1))
    \/ \E k \in 1..MaxProbe : \E j \in {k, (k % MaxProbe) + 1} :
           MergeBy(Entry(k, 0), Entry(j, 1))
    \/ \E k \in 1..MaxProbe : UpdateAtBy(Entry(k, 1))

SpecAbort == InitAbort /\ [][NextAbort]_vars

\* C32: when the inconsistent-comparator error is raised during insert,
\* upsert, merge, updateAt or find, the tree's entries, node structure and
\* version are as they were before the call.
C32_AbortWithoutMutation ==
    [][(ret'.op \in {"insert", "upsert", "merge", "updateAt", "find"} /\ ret'.thrown)
          => /\ TreeOf(heap', root') = TreeOf(heap, root)
             /\ version' = version]_vars


-----------------------------------------------------------------------------
(* Cursor movement.                                                        *)

\* a call returned x and did not throw
Landed(x) == x \notin {StalePath, TypeError}

\* the place among the stored entries of the slot the Path x points at
\* (one more than the number of entries before it)
Pos(x) ==
    LET ids == LeafIds(heap, root)
        m == PlaceOf(heap, root, x.leafNode)
        RECURSIVE Sum(_)
        Sum(i) == IF i = 0 THEN 0 ELSE Len(heap[ids[i]].entries) + Sum(i - 1)
    IN  Sum(m - 1) + x.leafIndex + 1

\* x is a Path on the i-th stored entry / a Path that is off an entry
OnAt(x, i) == Landed(x) /\ x.on /\ Pos(x) = i
Off(x) == Landed(x) /\ ~x.on

\* moveNext / movePrior on what an earlier move left
ThenNext(x) == IF Landed(x) THEN moveNext(T, x) ELSE x
ThenPrior(x) == IF Landed(x) THEN movePrior(T, x) ELSE x

\* the cursor laws for a valid Path p on the i-th of n stored entries
CursorLaws(p, i, n) ==
    /\ IF i < n
       THEN /\ OnAt(moveNext(T, p), i + 1)
            /\ OnAt(ThenPrior(moveNext(T, p)), i)
       ELSE /\ Off(moveNext(T, p))
            /\ Off(ThenNext(moveNext(T, p)))
            /\ Off(ThenNext(ThenNext(moveNext(T, p))))
            /\ OnAt(ThenPrior(moveNext(T, p)), n)
    /\ IF i > 1
       THEN /\ OnAt(movePrior(T, p), i - 1)
            /\ OnAt(ThenNext(movePrior(T, p)), i)
       ELSE /\ Off(movePrior(T, p))
            /\ OnAt(ThenNext(movePrior(T, p)), 1)

\* the Paths on the stored entries, first to last, as first() and moveNext
\* reach them
Cursors == ascending(T, first(T))

\* C33: for a valid Path on an entry that is not the last, moveNext and then
\* movePrior return to the same entry, and symmetrically, also across leaf
\* and branch boundaries; moveNext on the last entry leaves the Path off
\* without error, further moveNext calls leave it off, and movePrior from
\* there lands on the last entry; movePrior on the first entry leaves the
\* Path off, and moveNext from there lands on the first entry.  The Paths
\* are those on every stored entry, and the one a successful insert returned.
C33_CursorMovement ==
    /\ Len(Cursors) = Len(Stored(heap, root))
    /\ \A i \in 1..Len(Cursors) : CursorLaws(Cursors[i], i, Len(Cursors))
    /\ (ret.op = "insert" /\ ret.path.on)
           => CursorLaws(ret.path, Pos(ret.path), Len(Stored(heap, root)))


-----------------------------------------------------------------------------
(* Counting.                                                               *)

\* the counts from a valid Path p on the i-th of n stored entries: to the
\* last entry, and from the first, as ascending(p) and descending(p) count
CountsFrom(p, i, n) ==
    /\ getCountFrom(T, From(p, TRUE)) = Counted(n - i + 1)
    /\ getCountFrom(T, From(p, FALSE)) = Counted(i)
    /\ Len(ascending(T, p)) = n - i + 1
    /\ Len(descending(T, p)) = i

\* C34: getCount() is the number of stored entries; for a valid Path p on an
\* entry getCount({path: p}) is the number of entries from p's to the last
\* and getCount({path: p, ascending: false}) the number from the first to
\* p's, both inclusive, as many as ascending(p) and descending(p) yield.  The
\* Paths are those on every stored entry, and the one a successful insert
\* returned.
C34_GetCount ==
    /\ getCount(T) = Len(Stored(heap, root))
    /\ \A i \in 1..Len(Cursors) : CountsFrom(Cursors[i], i, Len(Stored(heap, root)))
    /\ (ret.op = "insert" /\ ret.path.on)
           => CountsFrom(ret.path, Pos(ret.path), Len(Stored(heap, root)))


\* tree.getCount()
GetCount ==
    /\ Small
    /\ Leave(T, path, [op |-> "getCount", from |-> FALSE, path |-> path,
                       returned |-> Counted(getCount(T))])
    /\ UNCHANGED <<ref, ops>>

\* tree.getCount({ path, ascending }) with the held Path
GetCountFrom(isAscending) ==
    /\ Small
    /\ Leave(T, path, [op |-> "getCount", from |-> TRUE, path |-> path,
                       ascending |-> isAscending,
                       returned |-> getCountFrom(T, From(path, isAscending))])
    /\ UNCHANGED <<ref, ops>>

(* The small world with the counting calls.                                *)
NextCount ==
    \/ Next
    \/ GetCount
    \/ \E isAscending \in BOOLEAN : GetCountFrom(isAscending)

SpecCount == Init /\ [][NextCount]_vars

\* C35: getCount({path, ascending}) with a Path whose version stamp differs
\* from the tree's version fails with the stale-path error, for ascending
\* true and for ascending false.
C35_GetCountRejectsStale ==
    (ret.op = "getCount" /\ ret.from /\ ret.path.version # version)
        => ret.returned = StalePath


-----------------------------------------------------------------------------
(* Reads of entry slots.                                                   *)

\* the slot the Path p points at is within its leaf's array
SlotExists(t, p) == p.leafIndex >= 0 /\ p.leafIndex < Len(t.heap[p.leafNode].entries)

\* the bounds a caller gives range: none, or a key up to one past the small
\* keys, inclusive or not
EndBounds == {NoBound} \cup {KeyBound(k, i) : k \in 0..(MaxSmall + 1), i \in BOOLEAN}

EndRanges == {KeyRange(f, l, a) : f \in EndBounds, l \in EndBounds, a \in BOOLEAN}

\* deleteAt(p) reads the slot p points at after the splice, to update the
\* partitions of a leaf that is not the root: the leaf keeps an entry
DeleteReadsEntry(t, p) ==
    (p.on /\ p.branches # <<>> /\ p.leafIndex = 0)
        => Len(t.heap[p.leafNode].entries) > 1

\* C36: no public operation hands keyFromEntry or compare a leaf slot outside
\* [0, entries.length): in every reachable state the slot range reads for
\* its end key exists, for any bounds, on an empty and on a non-empty tree,
\* and also when its end Path is off an entry; deleteAt on any stored entry
\* reads an entry that exists; and no partition is the undefined key.
C36_NoMissingEntryRead ==
    /\ \A r \in EndRanges : SlotExists(T, rangeEndPath(T, r))
    /\ \A i \in 1..Len(Cursors) : DeleteReadsEntry(T, Cursors[i])
    /\ \A b \in BranchesUnder(heap, root) :
           \A i \in 1..Len(heap[b].partitions) : heap[b].partitions[i] # undefined.id

=============================================================================
